---- MODULE Spec2Model ----
(***************************************************************************)
(* A model of the MyREST gateway (lib/xsql.js, lib/xapi.js and the         *)
(* refactored repositories/services).                                      *)
(*                                                                         *)
(* Part 1 - the connection/context executor: Xsql.exec and the             *)
(* DatabaseConnectionManager (executeQuery, executeWithConnection,         *)
(* executeInTransaction).  One action per callback the code registers;     *)
(* node runs each callback to completion, so a callback is one step.       *)
(*                                                                         *)
(* Part 2 - the RLS policy engine and the handlers of lib/xapi.js that     *)
(* compose SQL statements from the policy index.                           *)
(***************************************************************************)
EXTENDS Integers, Sequences, FiniteSets, TLC

(***************************************************************************)
(* Bounds of the model.                                                    *)
(***************************************************************************)
\* concurrent requests
NReq == 2
\* connections of the pool (connectionLimit of the configuration)
PoolSize == 1

\* rows of the policy store _rls_policies
NPolicies == 2

Reqs == 1..NReq

\* rows of the table of Part 7 (the values its AUTO_INCREMENT key takes)
MaxId == 2
\* clients that write the table at the same time
NClients == 2

\* rows that can match the WHERE of the list request of Part 8
MaxRows == 3
\* characters of the select string of Part 9
MaxLen == 4
\* connections of the pool of Part 11 (connectionLimit) and the handlers
\* that run at the same time
ConnectionLimit == 1
NRunning == 3
\* statements a handler issues, one after the other (patch with
\* return=representation: three)
MaxStatements == 3

RowIds == 1..MaxId
MatchIds == 1..MaxRows
Running == 1..NRunning
Clients == 1..NClients
Conns == 1..PoolSize
PolicyIds == 1..NPolicies

\* The claim names a token can carry; a request context is a set of them.
Keys == {"role", "sub"}
Contexts == {{}, {"role"}, {"role", "sub"}}

\* What a session variable @request_jwt_claim_<k> of a connection holds:
\* nothing (NULL), the value the SET of the checkout in progress bound, or a
\* value left by an earlier checkout.  A request binds all its claims at
\* every checkout, so a left-over value it can read is one another request
\* bound.
VarStates == {"null", "current", "stale"}

\* The four entry points of the executor.
Apis == {"exec", "executeQuery", "executeWithConnection", "executeInTransaction"}
SingleStatementApis == {"exec", "executeQuery"}

VARIABLES
    \* ---- executor: per request
    api,        \* the entry point of the executor the handlers call
    pc,         \* which callback the request waits for
    ctx,        \* its claim map (the set of claim names), {} when anonymous
    conn,       \* the connection the executor holds for it, 0 when none
    log,        \* what its executor call did so far, in order
    seen,       \* whose bound values its statements could read
    \* ---- executor: per connection
    holder,     \* the request a connection is checked out for, 0 when free
    vars,       \* @request_jwt_claim_<k> of each connection, a VarStates
    tx,         \* "open" inside a transaction
    \* ---- policy store (the table _rls_policies)
    policy,     \* table_name and operation of each row
    enabled,    \* the rows whose enabled column is TRUE
    \* ---- policy engine (Xsql)
    phase,      \* "ensureTable", "loading" (both inside init), "serving"
    loadPc,     \* loadRlsPolicies: "idle", "awaitQuery", "awaitCallback"
    results,    \* the rows its query returned, while the callback is pending
    rlsPolicies,\* the in-memory index
    lastLoad,   \* how the last load ended: "none", "ok", "failed"
    fresh,      \* the store has not changed since the query of the last load
    \* ---- handlers (Xapi)
    stmts,      \* the SQL statements of the latest handler call
    \* ---- startup (Xapi.init, Xsql.init, SchemaRepository)
    boot,       \* the catalog, its loader and what was served from it
    \* ---- one request through the middleware chain and its handler
    http,       \* configuration, request, position, statements, responses
    \* ---- the query string of the handler call in stmts
    flt,        \* its PostgREST filters as the client wrote them
    \* ---- one table of the database and the requests that write it
    db,         \* its rows, its AUTO_INCREMENT counter, the last statement
    cl,         \* per client: the handler call in progress
    \* ---- one list request, its page and its Content-Range
    page,       \* the matching rows, the request, its statements, its answer
    \* ---- the select planner
    sel,        \* parseSelect: the input, the position, the depth, the items
    rel,        \* getNestedQuery: the catalog, the relation node, the subquery
    \* ---- express: app.locals and the handlers that read it
    loc,        \* _tableName, _parentTable, _childTable and the last call
    \* ---- the pool as the handlers use it, statement after statement
    pool        \* free connections, the queue, per handler: its position

reqVars == <<pc, ctx, conn, log, seen>>
poolVars == <<holder, vars, tx>>
execVars == <<api, reqVars, poolVars>>
storeVars == <<policy, enabled>>
loadVars == <<phase, loadPc, results, rlsPolicies, lastLoad, fresh>>
rlsVars == <<storeVars, loadVars>>
\* what no step of the executor changes
plannerVars == <<page, sel, rel, loc, pool>>
gatewayVars == <<boot, http, flt, db, cl, plannerVars>>
outsideExec == <<api, rlsVars, stmts, gatewayVars>>
vars_all == <<execVars, rlsVars, stmts, gatewayVars>>

----------------------------------------------------------------------------
(***************************************************************************)
(* The data of the policy engine.                                          *)
(***************************************************************************)

Tables == {"docs", "notes"}
\* operation ENUM('SELECT', 'INSERT', 'UPDATE', 'DELETE', 'ALL')
ConcreteOps == {"SELECT", "INSERT", "UPDATE", "DELETE"}
Operations == ConcreteOps \cup {"ALL"}

\* What a row of the store can say, in a fixed order.
Kinds ==
    << [table |-> "docs", operation |-> "ALL"],
       [table |-> "docs", operation |-> "SELECT"],
       [table |-> "docs", operation |-> "INSERT"],
       [table |-> "docs", operation |-> "UPDATE"],
       [table |-> "docs", operation |-> "DELETE"],
       [table |-> "notes", operation |-> "ALL"],
       [table |-> "notes", operation |-> "SELECT"],
       [table |-> "notes", operation |-> "INSERT"],
       [table |-> "notes", operation |-> "UPDATE"],
       [table |-> "notes", operation |-> "DELETE"] >>

\* The stores of NPolicies rows, up to the numbering of the rows.
Stores ==
    {p \in [PolicyIds -> DOMAIN Kinds] : \A i, j \in PolicyIds : i < j => p[i] <= p[j]}

\* constructor: this.rlsPolicies = {}
NoPolicies == [t \in Tables |-> [present |-> FALSE, ops |-> [o \in ConcreteOps |-> <<>>]]]

\* No handler has been called.
NoCall == [handler |-> "none", table |-> "none", operation |-> "none", sql |-> <<>>]

\* The routines the database can hold.
Routines == {"proc"}

\* Routes that exist whatever the catalog holds ('/', '/api/tables', ...).
FixedRoutes == {"/api/tables"}

\* The catalog was loaded from a database that holds every table; the
\* gateway listens.
Booted ==
    [loader |-> "Xsql", dbTables |-> Tables, dbRoutines |-> Routines,
     pc |-> "ready", metaDb |-> [tables |-> Tables, routines |-> Routines],
     routes |-> Tables \cup FixedRoutes, listening |-> TRUE, exited |-> FALSE,
     routineQuery |-> "ok", loaded |-> TRUE, served |-> {}]

\* The table of Part 7 with no row, and its clients with no call.
NoInsert == [body |-> <<>>, resolution |-> "none"]

EmptyTable ==
    [rows |-> [i \in RowIds |-> "none"], autoInc |-> 1, last |-> NoInsert,
     again |-> FALSE]

ClientIdle ==
    [h |-> "none", pc |-> "idle", body |-> <<>>, bulk |-> FALSE,
     resolution |-> "none", rep |-> FALSE, captured |-> {}, written |-> {},
     status |-> 0, kind |-> "none", answer |-> {}]

NoClients == [c \in Clients |-> ClientIdle]

\* No request is in the middleware chain; a token is optional.
NoRequest ==
    [config |-> [jwtSecret |-> TRUE, jwtRequired |-> FALSE], stack |-> "Xapi",
     pc |-> "idle",
     req |-> [auth |-> "none", handler |-> "none", table |-> "none",
              id |-> <<>>, flags |-> {}],
     plan |-> <<>>, status |-> 0,
     statements |-> 0, responses |-> <<>>, handlerRan |-> FALSE]

\* The pagination parameters of a query string; <<>> stands for a parameter
\* that is not in the query, any other value is the digits the client wrote.
PageParams == {"limit", "offset", "_size", "_p"}
NoQuery == [k \in PageParams |-> <<>>]

\* totalCount = null
Null == -1

\* No list request is in progress and no row matches.
NoPage ==
    [rows |-> {}, pc |-> "idle", route |-> "none", query |-> NoQuery,
     countRequested |-> FALSE, singular |-> FALSE, totalCount |-> Null,
     candidate |-> <<>>, results |-> <<>>, limitClause |-> <<0, 0>>,
     status |-> 0, body |-> "none", contentRange |-> <<>>]

\* parseSelect has not been called.
NoParse ==
    [selectStr |-> <<>>, i |-> 1, depth |-> 0, buffer |-> <<>>, results |-> <<>>,
     pc |-> "idle"]

\* getNestedQuery has not been called.
NoRelation ==
    [foreignKeys |-> {}, parentTable |-> "none", relationName |-> "none",
     hint |-> "none", pc |-> "idle", embedding |-> "none", on |-> "none",
     alias |-> "none"]

\* express after construction: app.locals holds no table name.
NoLocals ==
    [tableName |-> "undefined", parentTable |-> "undefined",
     childTable |-> "undefined", handler |-> "none", url |-> <<>>, used |-> <<>>]

HandlerIdle == [pc |-> "idle", left |-> 0, held |-> 0, waited |-> FALSE]

\* The pool with every connection free and no handler running.
NoPool ==
    [free |-> ConnectionLimit, queue |-> <<>>,
     h |-> [r \in Running |-> HandlerIdle]]

PlannerIdle ==
    page = NoPage /\ sel = NoParse /\ rel = NoRelation /\ loc = NoLocals /\ pool = NoPool

\* Startup is over and nothing of it moves.
GatewayIdle ==
    /\ boot = Booted /\ http = NoRequest /\ flt = <<>> /\ db = EmptyTable
    /\ cl = NoClients
    /\ PlannerIdle

\* The gateway serves with an empty store and an empty index.
ServingWithoutPolicies ==
    /\ policy = [i \in PolicyIds |-> Kinds[1]]
    /\ enabled = {}
    /\ phase = "serving"
    /\ loadPc = "idle"
    /\ results = <<>>
    /\ rlsPolicies = NoPolicies
    /\ lastLoad = "ok"
    /\ fresh = TRUE
    /\ stmts = NoCall

----------------------------------------------------------------------------
(***************************************************************************)
(* Part 1: the executor.                                                   *)
(***************************************************************************)

Ev(e) == [ev |-> e, n |-> 0]

\* The bound values a statement running on connection c can read.
Readable(c) == {vars[c][k] : k \in Keys} \ {"null"}

\* A variant that executes one SET statement per claim.
SetStatementPerClaim(r) ==
    [i \in 1..Cardinality(ctx[r]) |-> [ev |-> "SET", n |-> 1]]

\* for (let key in context) setStatements.push(...): one SET statement with
\* one assignment per claim.
SetStatement(r) == <<[ev |-> "SET", n |-> Cardinality(ctx[r])]>>

\* The SET binds the claims of r, and nothing else, on connection c.
BindClaims(r, c) ==
    [vars EXCEPT ![c] = [k \in Keys |-> IF k \in ctx[r] THEN "current" ELSE @[k]]]

HasContext(r) == ctx[r] # {}

CountEv(s, e) == Cardinality({i \in DOMAIN s : s[i].ev = e})
Has(s, e) == \E i \in DOMAIN s : s[i].ev = e

\* No call of the executor is in progress.
ExecIdle ==
    /\ pc = [r \in Reqs |-> "idle"]
    /\ ctx = [r \in Reqs |-> {}]
    /\ conn = [r \in Reqs |-> 0]
    /\ log = [r \in Reqs |-> <<>>]
    /\ seen = [r \in Reqs |-> {}]
    /\ holder = [c \in Conns |-> 0]
    /\ vars = [c \in Conns |-> [k \in Keys |-> "null"]]
    /\ tx = [c \in Conns |-> "none"]

InitExec ==
    /\ api \in Apis
    /\ ExecIdle
    /\ GatewayIdle
    /\ ServingWithoutPolicies

\* A variant that dispatches every single statement on the pool.
DispatchOnPool(a, x) ==
    IF a \in SingleStatementApis THEN "awaitPool" ELSE "awaitConn"

\* The first thing a call does: without context pool.query, with context
\* pool.getConnection (exec, executeQuery); always pool.getConnection for
\* executeWithConnection and executeInTransaction.
Dispatch(a, x) ==
    IF a \in SingleStatementApis /\ x = {} THEN "awaitPool" ELSE "awaitConn"

\* A request arrives and its handler calls the executor.
Call(r) ==
    /\ pc[r] = "idle"
    /\ \E x \in Contexts :
        /\ ctx' = [ctx EXCEPT ![r] = x]
        /\ pc' = [pc EXCEPT ![r] = Dispatch(api, x)]
    /\ UNCHANGED <<outsideExec, conn, log, seen, poolVars>>

\* resolve(rows) or reject(error): the promise of the call is settled.
Settle(r) == pc' = [pc EXCEPT ![r] = "done"]

Settled(ok) == Ev(IF ok THEN "RESOLVE" ELSE "REJECT")

\* What the session variables of a connection are to the next checkout:
\* nothing resets them, so a bound value stays as a left-over.
LeftOver(v) == [k \in Keys |-> IF v[k] = "null" THEN "null" ELSE "stale"]

\* connection.release(): the connection goes back to the pool as it is.
Release(r) ==
    /\ holder' = [holder EXCEPT ![conn[r]] = 0]
    /\ vars' = [vars EXCEPT ![conn[r]] = LeftOver(@)]
    /\ conn' = [conn EXCEPT ![r] = 0]

Logged(r, evs) == log' = [log EXCEPT ![r] = @ \o evs]

\* pool.query(query, params, cb): the pool runs the statement on a free
\* connection of its own choice; no SET precedes it.
PoolQueryRun(r) ==
    /\ pc[r] = "awaitPool"
    /\ \E c \in Conns :
        /\ holder[c] = 0
        /\ holder' = [holder EXCEPT ![c] = r]
        /\ seen' = [seen EXCEPT ![r] = @ \cup Readable(c)]
    /\ Logged(r, <<Ev("POOLQUERY")>>)
    /\ pc' = [pc EXCEPT ![r] = "poolRunning"]
    /\ UNCHANGED <<outsideExec, ctx, conn, vars, tx>>

\* The callback of pool.query; the pool has taken its connection back.
PoolQueryDone(r) ==
    /\ pc[r] = "poolRunning"
    /\ holder' = [c \in Conns |-> IF holder[c] = r THEN 0 ELSE holder[c]]
    /\ \E ok \in BOOLEAN : Settle(r) /\ Logged(r, <<Settled(ok)>>)
    /\ UNCHANGED <<outsideExec, ctx, conn, seen, vars, tx>>

\* What the getConnection callback waits for next.
AfterConnection(r) ==
    IF api = "executeInTransaction" THEN "awaitBegin"
    ELSE IF HasContext(r) THEN "awaitSet"
    ELSE "awaitCallback"

\* What the getConnection callback issues on the connection it was given.
IssuedOnConnection(r) ==
    IF api = "executeInTransaction" THEN <<Ev("BEGIN")>>
    ELSE IF HasContext(r) THEN SetStatement(r)
    ELSE <<Ev("CALLBACK")>>

\* pool.getConnection(cb) with a connection.
GetConnectionOk(r) ==
    /\ pc[r] = "awaitConn"
    /\ \E c \in Conns :
        /\ holder[c] = 0
        /\ holder' = [holder EXCEPT ![c] = r]
        /\ conn' = [conn EXCEPT ![r] = c]
        /\ seen' = [seen EXCEPT ![r] =
                        IF AfterConnection(r) = "awaitCallback" THEN @ \cup Readable(c) ELSE @]
    /\ Logged(r, <<Ev("GET")>> \o IssuedOnConnection(r))
    /\ pc' = [pc EXCEPT ![r] = AfterConnection(r)]
    /\ UNCHANGED <<outsideExec, ctx, vars, tx>>

\* pool.getConnection(cb) with an error: if (err) return reject(err).
GetConnectionErr(r) ==
    /\ pc[r] = "awaitConn"
    /\ Settle(r)
    /\ Logged(r, <<Settled(FALSE)>>)
    /\ UNCHANGED <<outsideExec, ctx, conn, seen, poolVars>>

\* connection.beginTransaction(cb) without error: the SET (with context) or
\* the callback (without) is started.
BeginOk(r) ==
    /\ pc[r] = "awaitBegin"
    /\ tx' = [tx EXCEPT ![conn[r]] = "open"]
    /\ Logged(r, <<Ev("BEGINOK")>> \o
                 (IF HasContext(r) THEN SetStatement(r) ELSE <<Ev("CALLBACK")>>))
    /\ seen' = [seen EXCEPT ![r] = IF HasContext(r) THEN @ ELSE @ \cup Readable(conn[r])]
    /\ pc' = [pc EXCEPT ![r] = IF HasContext(r) THEN "awaitSet" ELSE "awaitCallback"]
    /\ UNCHANGED <<outsideExec, ctx, conn, holder, vars>>

\* connection.beginTransaction(cb) with transErr: release and reject.
BeginErr(r) ==
    /\ pc[r] = "awaitBegin"
    /\ Logged(r, <<Ev("BEGINERR"), Ev("RELEASE"), Settled(FALSE)>>)
    /\ Release(r)
    /\ Settle(r)
    /\ UNCHANGED <<outsideExec, ctx, seen, tx>>

\* What follows a SET that succeeded: exec and executeQuery issue the main
\* statement on the same connection, the other two start the callback.
AfterSet(r) == IF api \in SingleStatementApis THEN "MAIN" ELSE "CALLBACK"

SetOk(r) ==
    /\ pc[r] = "awaitSet"
    /\ vars' = BindClaims(r, conn[r])
    /\ Logged(r, <<Ev("SETOK"), Ev(AfterSet(r))>>)
    /\ seen' = [seen EXCEPT ![r] = @ \cup ({vars'[conn[r]][k] : k \in Keys} \ {"null"})]
    /\ pc' = [pc EXCEPT ![r] = IF AfterSet(r) = "MAIN" THEN "awaitMain" ELSE "awaitCallback"]
    /\ UNCHANGED <<outsideExec, ctx, conn, holder, tx>>

\* A variant of the error branch that rejects and keeps the connection.
SetErrKeepsConnection(r) ==
    /\ pc[r] = "awaitSet"
    /\ api # "executeInTransaction"
    /\ Logged(r, <<Ev("SETERR"), Settled(FALSE)>>)
    /\ Settle(r)
    /\ UNCHANGED <<outsideExec, ctx, conn, seen, poolVars>>

\* The SET failed outside a transaction: release, reject, no main statement.
SetErr(r) ==
    /\ pc[r] = "awaitSet"
    /\ api # "executeInTransaction"
    /\ Logged(r, <<Ev("SETERR"), Ev("RELEASE"), Settled(FALSE)>>)
    /\ Release(r)
    /\ Settle(r)
    /\ UNCHANGED <<outsideExec, ctx, seen, tx>>

\* The SET failed inside a transaction: .catch rolls back.
SetErrInTransaction(r) ==
    /\ pc[r] = "awaitSet"
    /\ api = "executeInTransaction"
    /\ Logged(r, <<Ev("SETERR"), Ev("ROLLBACK")>>)
    /\ pc' = [pc EXCEPT ![r] = "awaitRollback"]
    /\ UNCHANGED <<outsideExec, ctx, conn, seen, poolVars>>

\* The callback of the main statement: release first, then settle.
MainDone(r) ==
    /\ pc[r] = "awaitMain"
    /\ Release(r)
    /\ \E ok \in BOOLEAN :
        /\ Settle(r)
        /\ Logged(r, <<Ev("RELEASE"), Settled(ok)>>)
    /\ UNCHANGED <<outsideExec, ctx, seen, tx>>

\* executeWithConnection: the callback's promise settled; .then releases and
\* resolves, .catch releases and rejects.
WithConnectionDone(r) ==
    /\ pc[r] = "awaitCallback"
    /\ api = "executeWithConnection"
    /\ Release(r)
    /\ \E ok \in BOOLEAN :
        /\ Settle(r)
        /\ Logged(r, <<Ev("RELEASE"), Settled(ok)>>)
    /\ UNCHANGED <<outsideExec, ctx, seen, tx>>

\* executeInTransaction: the callback resolved, connection.commit is issued.
CallbackOk(r) ==
    /\ pc[r] = "awaitCallback"
    /\ api = "executeInTransaction"
    /\ Logged(r, <<Ev("CALLBACKOK"), Ev("COMMIT")>>)
    /\ pc' = [pc EXCEPT ![r] = "awaitCommit"]
    /\ UNCHANGED <<outsideExec, ctx, conn, seen, poolVars>>

\* executeInTransaction: the callback rejected or threw, .catch rolls back.
CallbackErr(r) ==
    /\ pc[r] = "awaitCallback"
    /\ api = "executeInTransaction"
    /\ Logged(r, <<Ev("CALLBACKERR"), Ev("ROLLBACK")>>)
    /\ pc' = [pc EXCEPT ![r] = "awaitRollback"]
    /\ UNCHANGED <<outsideExec, ctx, conn, seen, poolVars>>

\* connection.commit(cb) without error: release and resolve.
CommitOk(r) ==
    /\ pc[r] = "awaitCommit"
    /\ tx' = [tx EXCEPT ![conn[r]] = "none"]
    /\ Logged(r, <<Ev("COMMITOK"), Ev("RELEASE"), Settled(TRUE)>>)
    /\ Release(r)
    /\ Settle(r)
    /\ UNCHANGED <<outsideExec, ctx, seen>>

\* A variant that releases and rejects on commitErr without rolling back.
CommitErrWithoutRollback(r) ==
    /\ pc[r] = "awaitCommit"
    /\ Logged(r, <<Ev("COMMITERR"), Ev("RELEASE"), Settled(FALSE)>>)
    /\ Release(r)
    /\ Settle(r)
    /\ UNCHANGED <<outsideExec, ctx, seen, tx>>

\* connection.commit(cb) with commitErr: connection.rollback is issued.
CommitErr(r) ==
    /\ pc[r] = "awaitCommit"
    /\ Logged(r, <<Ev("COMMITERR"), Ev("ROLLBACK")>>)
    /\ pc' = [pc EXCEPT ![r] = "awaitRollback"]
    /\ UNCHANGED <<outsideExec, ctx, conn, seen, poolVars>>

\* connection.rollback(() => { release; reject }): the callback takes no
\* error argument.  The transaction is over either way: a ROLLBACK fails
\* only on a lost connection, and the server rolls that back itself.
RollbackDone(r) ==
    /\ pc[r] = "awaitRollback"
    /\ tx' = [tx EXCEPT ![conn[r]] = "none"]
    /\ Logged(r, <<Ev("ROLLBACKDONE"), Ev("RELEASE"), Settled(FALSE)>>)
    /\ Release(r)
    /\ Settle(r)
    /\ UNCHANGED <<outsideExec, ctx, seen>>

\* The response is sent and the request is over: its record is dropped.
Finish(r) ==
    /\ pc[r] = "done"
    /\ pc' = [pc EXCEPT ![r] = "idle"]
    /\ ctx' = [ctx EXCEPT ![r] = {}]
    /\ log' = [log EXCEPT ![r] = <<>>]
    /\ seen' = [seen EXCEPT ![r] = {}]
    /\ UNCHANGED <<outsideExec, conn, poolVars>>

NextExec ==
    \E r \in Reqs :
        \/ Call(r)
        \/ PoolQueryRun(r)
        \/ PoolQueryDone(r)
        \/ GetConnectionOk(r)
        \/ GetConnectionErr(r)
        \/ BeginOk(r)
        \/ BeginErr(r)
        \/ SetOk(r)
        \/ SetErr(r)
        \/ SetErrInTransaction(r)
        \/ MainDone(r)
        \/ WithConnectionDone(r)
        \/ CallbackOk(r)
        \/ CallbackErr(r)
        \/ CommitOk(r)
        \/ CommitErr(r)
        \/ RollbackDone(r)
        \/ Finish(r)

SpecExec == InitExec /\ [][NextExec]_vars_all

----------------------------------------------------------------------------
(***************************************************************************)
(* Properties of the executor.                                             *)
(***************************************************************************)

\* The events of the call of r.
Events(r) == {log[r][i].ev : i \in DOMAIN log[r]}

Borrowed(r) == CountEv(log[r], "GET")
Released(r) == CountEv(log[r], "RELEASE")

\* Every event e of s has an event b somewhere before it.
Precedes(s, b, e) ==
    \A i \in DOMAIN s : s[i].ev = e => \E j \in 1..(i - 1) : s[j].ev = b

\* The statements run for the request itself.
Work == {"MAIN", "CALLBACK", "POOLQUERY"}
Worked(r) == \E i \in DOMAIN log[r] : log[r][i].ev \in Work

\* C1: every connection the executor borrows is released exactly once on
\* every path - never twice (no more releases than borrows at any time),
\* never zero times (a settled call holds nothing), and the pool agrees with
\* the executor about who holds what.
C1_ReleasedExactlyOnce ==
    /\ \A r \in Reqs :
        LET b == Borrowed(r)
            d == Released(r)
        IN  /\ d <= b
            /\ b <= 1
            /\ pc[r] = "done" => d = b
            /\ conn[r] # 0 <=> (b = 1 /\ d = 0)
            /\ conn[r] # 0 => holder[conn[r]] = r
    /\ \A c \in Conns :
        holder[c] # 0 =>
            /\ pc[holder[c]] \notin {"idle", "done"}
            /\ conn[holder[c]] = c \/ pc[holder[c]] = "poolRunning"

\* A call that failed after it borrowed a connection has settled.
C1_Witness ==
    \E r \in Reqs :
        /\ pc[r] = "done"
        /\ Borrowed(r) = 1 /\ Released(r) = 1
        /\ Has(log[r], "SETERR") \/ Has(log[r], "COMMITERR")

\* C2: the statement run for a request never reads a session variable
\* whose value was bound for a different request.
C2_NoForeignClaimRead == \A r \in Reqs : "stale" \notin seen[r]

\* C5: with a non-empty claim map the request's statement is never sent
\* through the pool; it is issued only after the SET was issued on the borrowed
\* connection and completed without error; while it runs, the executor still
\* holds that connection and the claims of the request are bound on it.
C5_SetBeforeMain ==
    \A r \in Reqs :
        HasContext(r) =>
            LET E == Events(r)
            IN  /\ "POOLQUERY" \notin E
                /\ Precedes(log[r], "SETOK", "MAIN")
                /\ Precedes(log[r], "SETOK", "CALLBACK")
                /\ Precedes(log[r], "SET", "SETOK")
                /\ Precedes(log[r], "GET", "SET")
                /\ "SETERR" \in E => "MAIN" \notin E /\ "CALLBACK" \notin E
                /\ pc[r] \in {"awaitMain", "awaitCallback"} =>
                    /\ conn[r] # 0
                    /\ holder[conn[r]] = r
                    /\ \A k \in ctx[r] : vars[conn[r]][k] = "current"

\* The main statement of a call with claims is running.
C5_Witness ==
    \E r \in Reqs :
        /\ api \in SingleStatementApis
        /\ HasContext(r)
        /\ pc[r] = "awaitMain"
        /\ Has(log[r], "SETOK")

Committed(E) == "COMMITOK" \in E
RolledBack(E) == "ROLLBACKDONE" \in E
FailedInside(E) == E \cap {"SETERR", "CALLBACKERR", "COMMITERR"} # {}

\* C10: a transaction executeInTransaction opened ends with exactly one
\* outcome before the connection is released - commit when the callback
\* succeeded (and the commit did), rollback when the SET, the callback or the
\* commit failed; no connection goes back to the pool inside a transaction;
\* the promise resolves only after a successful commit, and rejects otherwise.
C10_OneOutcomeBeforeRelease ==
    /\ \A c \in Conns : tx[c] = "open" => holder[c] # 0
    /\ api = "executeInTransaction" =>
        \A r \in Reqs :
            LET E == Events(r)
            IN  "BEGINOK" \in E =>
                    /\ ~(Committed(E) /\ RolledBack(E))
                    /\ "RELEASE" \in E =>
                        /\ Committed(E) \/ RolledBack(E)
                        /\ Precedes(log[r], "COMMITOK", "RELEASE")
                            \/ Precedes(log[r], "ROLLBACKDONE", "RELEASE")
                        /\ Committed(E) <=> ("CALLBACKOK" \in E /\ ~FailedInside(E))
                        /\ RolledBack(E) <=> FailedInside(E)
                    /\ "RESOLVE" \in E => Committed(E)
                    /\ Precedes(log[r], "COMMITOK", "RESOLVE")
                    /\ "REJECT" \in E => RolledBack(E)
                    /\ pc[r] = "done" => ("RESOLVE" \in E <=> Committed(E))

\* A transaction whose commit failed was rolled back and its call rejected.
C10_Witness ==
    \E r \in Reqs :
        /\ api = "executeInTransaction"
        /\ pc[r] = "done"
        /\ Has(log[r], "COMMITERR")
        /\ RolledBack(Events(r))
        /\ Has(log[r], "REJECT")

----------------------------------------------------------------------------
(***************************************************************************)
(* Part 2: the policy engine.  The store is changed by SQL from outside    *)
(* the gateway; the gateway reads it at startup and on reloadPolicies.     *)
(* reloadPolicies is awaited by its callers, so one load is in flight at   *)
(* a time.                                                                 *)
(***************************************************************************)

Row(i) == Kinds[policy[i]]

\* SELECT * FROM _rls_policies WHERE enabled = TRUE, in primary-key order.
RECURSIVE RowsFrom(_, _)
RowsFrom(S, i) ==
    IF i > NPolicies THEN <<>>
    ELSE (IF i \in S THEN <<i>> ELSE <<>>) \o RowsFrom(S, i + 1)

QueryRows(S) == RowsFrom(S, 1)

\* this.rlsPolicies[tableName][operation].push(policy)
Push(idx, t, o, i) == [idx EXCEPT ![t].ops[o] = Append(@, i)]

\* if (!this.rlsPolicies[tableName]) this.rlsPolicies[tableName] = {...}
WithTable(idx, t) == [idx EXCEPT ![t].present = TRUE]

\* A variant of the fan-out that leaves DELETE out.
FanOutWithoutDelete(idx, t, i) ==
    Push(Push(Push(idx, t, "SELECT", i), t, "INSERT", i), t, "UPDATE", i)

\* if (policy.operation === 'ALL'): push to the four concrete operations.
FanOut(idx, t, i) ==
    Push(Push(Push(Push(idx, t, "SELECT", i), t, "INSERT", i), t, "UPDATE", i),
         t, "DELETE", i)

\* One turn of the loop over the rows.
IndexRow(idx, i) ==
    LET t == Row(i).table
        o == Row(i).operation
    IN  IF o = "ALL" THEN FanOut(WithTable(idx, t), t, i)
        ELSE Push(WithTable(idx, t), t, o, i)

RECURSIVE IndexRows(_, _)
IndexRows(idx, rows) ==
    IF rows = <<>> THEN idx ELSE IndexRows(IndexRow(idx, Head(rows)), Tail(rows))

\* this.rlsPolicies = {}; for (let policy of results) ...
BuildIndex(rows) == IndexRows(NoPolicies, rows)

\* let policies = this.rlsPolicies[tableName][operation] || []
PoliciesFor(t, o) ==
    IF ~rlsPolicies[t].present THEN <<>> ELSE rlsPolicies[t].ops[o]

\* SQL text is a sequence of tokens; the using_expression of row i is the
\* predicate "p<i>".
UsingExpression(i) == "p" \o ToString(i)

\* policies.map(p => `(${p.using_expression})`).join(' AND ')
RECURSIVE Conditions(_)
Conditions(ids) ==
    IF ids = <<>> THEN <<>>
    ELSE <<"(", UsingExpression(Head(ids)), ")">> \o
         (IF Tail(ids) = <<>> THEN <<>> ELSE <<"AND">> \o Conditions(Tail(ids)))

\* The composed predicate of (t, o); <<>> stands for null.
getPolicyWhereClause(t, o) == Conditions(PoliciesFor(t, o))

InitRls ==
    /\ api = "exec"
    /\ ExecIdle
    /\ GatewayIdle
    /\ policy \in Stores
    /\ enabled = {}
    /\ phase = "ensureTable"
    /\ loadPc = "idle"
    /\ results = <<>>
    /\ rlsPolicies = NoPolicies
    /\ lastLoad = "none"
    /\ fresh = FALSE
    /\ stmts = NoCall

\* A policy row is inserted, or its enabled column set (SQL on the store).
EnablePolicy(i) ==
    /\ i \notin enabled
    /\ enabled' = enabled \cup {i}
    /\ fresh' = FALSE
    /\ UNCHANGED <<gatewayVars, execVars, policy, phase, loadPc, results, rlsPolicies, lastLoad, stmts>>

\* A policy row is deleted, or its enabled column cleared.
DisablePolicy(i) ==
    /\ i \in enabled
    /\ enabled' = enabled \ {i}
    /\ fresh' = FALSE
    /\ UNCHANGED <<gatewayVars, execVars, policy, phase, loadPc, results, rlsPolicies, lastLoad, stmts>>

\* init: await ensureRlsPoliciesTable() - its error is caught and logged -
\* then loadRlsPolicies() sends its query.
ensureRlsPoliciesTable ==
    /\ phase = "ensureTable"
    /\ phase' = "loading"
    /\ loadPc' = "awaitQuery"
    /\ UNCHANGED <<gatewayVars, execVars, storeVars, results, rlsPolicies, lastLoad, fresh, stmts>>

\* reloadPolicies() { return this.loadRlsPolicies() }
reloadPolicies ==
    /\ phase = "serving"
    /\ loadPc = "idle"
    /\ loadPc' = "awaitQuery"
    /\ UNCHANGED <<gatewayVars, execVars, storeVars, phase, results, rlsPolicies, lastLoad, fresh, stmts>>

\* The database runs the query of loadRlsPolicies: resolve(rows).
LoadQueryOk ==
    /\ loadPc = "awaitQuery"
    /\ results' = QueryRows(enabled)
    /\ fresh' = TRUE
    /\ loadPc' = "awaitCallback"
    /\ UNCHANGED <<gatewayVars, execVars, storeVars, phase, rlsPolicies, lastLoad, stmts>>

\* A variant of the catch block that empties the index.
LoadQueryErrClearsIndex ==
    /\ loadPc = "awaitQuery"
    /\ loadPc' = "idle"
    /\ lastLoad' = "failed"
    /\ phase' = "serving"
    /\ rlsPolicies' = NoPolicies
    /\ UNCHANGED <<gatewayVars, execVars, storeVars, results, fresh, stmts>>

\* The query failed: reject(err), and catch (err) only logs.  The index is
\* what it was; init goes on to cbk.
LoadQueryErr ==
    /\ loadPc = "awaitQuery"
    /\ loadPc' = "idle"
    /\ lastLoad' = "failed"
    /\ phase' = "serving"
    /\ UNCHANGED <<gatewayVars, execVars, storeVars, results, rlsPolicies, fresh, stmts>>

\* A variant that gives up the thread between this.rlsPolicies = {} and the
\* loop: the index is emptied in one step and filled in the next.
LoadDoneInTwoSteps ==
    /\ loadPc = "awaitCallback"
    /\ \/ /\ rlsPolicies # NoPolicies
          /\ rlsPolicies' = NoPolicies
          /\ UNCHANGED <<phase, loadPc, results, lastLoad>>
       \/ /\ rlsPolicies = NoPolicies
          /\ rlsPolicies' = BuildIndex(results)
          /\ results' = <<>>
          /\ loadPc' = "idle"
          /\ lastLoad' = "ok"
          /\ phase' = "serving"
    /\ UNCHANGED <<gatewayVars, execVars, storeVars, fresh, stmts>>

\* The continuation of the await: the index is emptied and filled from the
\* rows in one run of the event loop.
LoadDone ==
    /\ loadPc = "awaitCallback"
    /\ rlsPolicies' = BuildIndex(results)
    /\ results' = <<>>
    /\ loadPc' = "idle"
    /\ lastLoad' = "ok"
    /\ phase' = "serving"
    /\ UNCHANGED <<gatewayVars, execVars, storeVars, fresh, stmts>>

NextRls ==
    \/ \E i \in PolicyIds : EnablePolicy(i)
    \/ \E i \in PolicyIds : DisablePolicy(i)
    \/ ensureRlsPoliciesTable
    \/ reloadPolicies
    \/ LoadQueryOk
    \/ LoadQueryErr
    \/ LoadDone

SpecRls == InitRls /\ [][NextRls]_vars_all

----------------------------------------------------------------------------
(***************************************************************************)
(* Properties of the policy engine.                                        *)
(***************************************************************************)

\* The enabled rows of S on table t that apply to operation o.
Applying(S, t, o) ==
    {i \in S : Row(i).table = t /\ Row(i).operation \in {o, "ALL"}}

Range(q) == {q[k] : k \in DOMAIN q}

\* The index of a set of rows, entry by entry.
IndexOf(S) ==
    [t \in Tables |->
        [present |-> \E i \in S : Row(i).table = t,
         ops |-> [o \in ConcreteOps |-> QueryRows(Applying(S, t, o))]]]

C8_IndexMatchesStore ==
    (loadPc = "idle" /\ lastLoad = "ok" /\ fresh) =>
        \A t \in Tables, o \in ConcreteOps :
            LET entry == PoliciesFor(t, o)
            IN  /\ Range(entry) = Applying(enabled, t, o)
                /\ Len(entry) = Cardinality(Range(entry))

\* A load has indexed a policy for ALL operations next to another policy.
C8_Witness ==
    /\ loadPc = "idle"
    /\ lastLoad = "ok"
    /\ fresh
    /\ Cardinality(enabled) >= 2
    /\ \E i \in enabled : Row(i).operation = "ALL"

----------------------------------------------------------------------------
(***************************************************************************)
(* Part 3: the handlers of Xapi compose their statements from the user's   *)
(* filters and the policy index.  A handler reads the index once, before   *)
(* its first await, and every statement it sends is made of what it read;  *)
(* a handler is one step.                                                  *)
(***************************************************************************)

\* What _where can say: one condition, or conditions joined by ~or / ~and.
LegacyWheres == {<<>>, <<"a">>, <<"a", "~or", "b">>, <<"a", "~and", "b">>}
\* The PostgREST filters of the query string.
PostgrestFilters == {<<>>, <<"c">>, <<"c", "d">>}

\* whereHelp.getWhereClause(_where).query: every condition (col,op,val)
\* becomes a parenthesised comparison, every ~or and ~and the SQL operator.
RECURSIVE whereHelp_getWhereClause(_)
whereHelp_getWhereClause(w) ==
    IF w = <<>> THEN <<>>
    ELSE (CASE Head(w) = "~or" -> <<"OR">>
            [] Head(w) = "~and" -> <<"AND">>
            [] OTHER -> <<"(", Head(w), ")">>)
         \o whereHelp_getWhereClause(Tail(w))

\* postgrestHelp.getWhereClause(queryParams).query: conditions.join(' AND ')
RECURSIVE postgrestHelp_getWhereClause(_)
postgrestHelp_getWhereClause(f) ==
    IF f = <<>> THEN <<>>
    ELSE <<Head(f)>> \o
         (IF Tail(f) = <<>> THEN <<>>
          ELSE <<"AND">> \o postgrestHelp_getWhereClause(Tail(f)))

\* Xsql.getWhereClause: the legacy predicates, ' AND ', the PostgREST ones,
\* appended to the fragment after appendToWhere when there is any.
getWhereClause(w, f, appendToWhere) ==
    LET oldWhere == whereHelp_getWhereClause(w)
        pgWhere == postgrestHelp_getWhereClause(f)
        both == IF oldWhere # <<>> /\ pgWhere # <<>>
                THEN oldWhere \o <<"AND">> \o pgWhere
                ELSE oldWhere \o pgWhere
    IN  IF both = <<>> THEN <<>> ELSE <<appendToWhere>> \o both

\* query.replace(/\s*where\s+/i, by): the first WHERE of the fragment.
RECURSIVE ReplaceWhere(_, _)
ReplaceWhere(q, by) ==
    IF q = <<>> THEN <<>>
    ELSE IF Head(q) = "WHERE" THEN by \o Tail(q)
    ELSE <<Head(q)>> \o ReplaceWhere(Tail(q), by)

\* if (rlsClause) { if (whereObj.query) replace(...) else ` where ${rlsClause}` }
injectPolicyIntoWhere(q, rlsClause) ==
    IF rlsClause = <<>> THEN q
    ELSE IF q # <<>>
         THEN ReplaceWhere(q, <<"WHERE", "(">> \o rlsClause \o <<")", "AND">>)
         ELSE <<"WHERE">> \o rlsClause

\* `(${rlsClause}) AND ${clause}` or clause, after 'where '.
WherePolicyAndKey(rlsClause, clause) ==
    IF rlsClause # <<>>
    THEN <<"WHERE", "(">> \o rlsClause \o <<")", "AND", clause>>
    ELSE <<"WHERE", clause>>

Statement(verb, where) == [verb |-> verb, where |-> where]

\* What a handler call leaves in stmts.
Emitted(h, t, o, sql) == [handler |-> h, table |-> t, operation |-> o, sql |-> sql]

\* No handler call is being looked at.
Ready == stmts.handler = "none"

\* The count query (with Prefer: count=exact) and the main query share the
\* WHERE fragment.
CountAndMain(countRequested, where) ==
    (IF countRequested THEN <<Statement("SELECT", where)>> ELSE <<>>)
        \o <<Statement("SELECT", where)>>

\* GET /api/:table
list(t, w, f, countRequested) ==
    /\ Ready
    /\ LET whereObj == injectPolicyIntoWhere(getWhereClause(w, f, "WHERE"),
                                             getPolicyWhereClause(t, "SELECT"))
       IN  stmts' = Emitted("list", t, "SELECT", CountAndMain(countRequested, whereObj))
    /\ UNCHANGED <<gatewayVars, execVars, rlsVars>>

\* GET /api/:parent/:id/:child - the foreign key, the filters, the policy.
nestedList(t, w, f, countRequested) ==
    /\ Ready
    /\ LET rlsClause == getPolicyWhereClause(t, "SELECT")
           whereObj == <<"WHERE", "fk">> \o getWhereClause(w, f, "AND") \o
                       (IF rlsClause # <<>>
                        THEN <<"AND", "(">> \o rlsClause \o <<")">> ELSE <<>>)
       IN  stmts' = Emitted("nestedList", t, "SELECT", CountAndMain(countRequested, whereObj))
    /\ UNCHANGED <<gatewayVars, execVars, rlsVars>>

\* GET /api/:table/:id
read(t) ==
    /\ Ready
    /\ stmts' = Emitted("read", t, "SELECT",
            <<Statement("SELECT", WherePolicyAndKey(getPolicyWhereClause(t, "SELECT"), "pk"))>>)
    /\ UNCHANGED <<gatewayVars, execVars, rlsVars>>

\* GET /api/:table/:id/exists
exists(t) ==
    /\ Ready
    /\ stmts' = Emitted("exists", t, "SELECT", <<Statement("SELECT", <<"WHERE", "pk">>)>>)
    /\ UNCHANGED <<gatewayVars, execVars, rlsVars>>

\* POST /api/:table - the INSERT and, with Prefer: return=representation
\* and a row that can be fetched by its key, the SELECT of what was inserted.
create(t, fetched) ==
    /\ Ready
    /\ stmts' = Emitted("create", t, "INSERT",
            <<Statement("INSERT", <<>>)>> \o
            (IF fetched THEN <<Statement("SELECT", <<"WHERE", "pk">>)>> ELSE <<>>))
    /\ UNCHANGED <<gatewayVars, execVars, rlsVars>>

\* PUT /api/:table/:id
update(t) ==
    /\ Ready
    /\ stmts' = Emitted("update", t, "UPDATE",
            <<Statement("UPDATE", WherePolicyAndKey(getPolicyWhereClause(t, "UPDATE"), "pk"))>>)
    /\ UNCHANGED <<gatewayVars, execVars, rlsVars>>

\* PATCH /api/:table - with return=representation the keys of the rows are
\* selected first and, when there are any, the rows are selected again by key.
patch(t, w, f, returnRepresentation, found) ==
    /\ Ready
    /\ found => returnRepresentation
    /\ LET whereObj == injectPolicyIntoWhere(getWhereClause(w, f, "WHERE"),
                                             getPolicyWhereClause(t, "UPDATE"))
       IN  stmts' = Emitted("patch", t, "UPDATE",
                (IF returnRepresentation THEN <<Statement("SELECT", whereObj)>> ELSE <<>>)
                \o <<Statement("UPDATE", whereObj)>> \o
                (IF found THEN <<Statement("SELECT", <<"WHERE", "pk">>)>> ELSE <<>>))
    /\ UNCHANGED <<gatewayVars, execVars, rlsVars>>

\* DELETE /api/:table/:id
deleteById(t, returnRepresentation) ==
    /\ Ready
    /\ LET whereClause == WherePolicyAndKey(getPolicyWhereClause(t, "DELETE"), "pk")
       IN  stmts' = Emitted("delete", t, "DELETE",
                (IF returnRepresentation THEN <<Statement("SELECT", whereClause)>> ELSE <<>>)
                \o <<Statement("DELETE", whereClause)>>)
    /\ UNCHANGED <<gatewayVars, execVars, rlsVars>>

\* DELETE /api/:table
deleteByFilter(t, w, f, returnRepresentation) ==
    /\ Ready
    /\ LET whereClause == injectPolicyIntoWhere(getWhereClause(w, f, "WHERE"),
                                                getPolicyWhereClause(t, "DELETE"))
       IN  stmts' = Emitted("delete", t, "DELETE",
                (IF returnRepresentation THEN <<Statement("SELECT", whereClause)>> ELSE <<>>)
                \o <<Statement("DELETE", whereClause)>>)
    /\ UNCHANGED <<gatewayVars, execVars, rlsVars>>

\* res.status(...).json(...): the call is over.
respond ==
    /\ ~Ready
    /\ stmts' = NoCall
    /\ UNCHANGED <<gatewayVars, execVars, rlsVars>>

\* The gateway serves after a load that read the store as it is.
InitApi ==
    /\ api = "exec"
    /\ ExecIdle
    /\ GatewayIdle
    /\ policy \in Stores
    /\ enabled \in SUBSET PolicyIds
    /\ phase = "serving"
    /\ loadPc = "idle"
    /\ results = <<>>
    /\ rlsPolicies = BuildIndex(QueryRows(enabled))
    /\ lastLoad = "ok"
    /\ fresh = TRUE
    /\ stmts = NoCall

NextApi ==
    \/ \E t \in Tables, w \in LegacyWheres, f \in PostgrestFilters, x \in BOOLEAN :
        \/ list(t, w, f, x)
        \/ nestedList(t, w, f, x)
        \/ deleteByFilter(t, w, f, x)
        \/ \E y \in BOOLEAN : patch(t, w, f, x, y)
    \/ \E t \in Tables :
        \/ read(t)
        \/ exists(t)
        \/ update(t)
        \/ \E x \in BOOLEAN : create(t, x) \/ deleteById(t, x)
    \/ respond

SpecApi == InitApi /\ [][NextApi]_vars_all

----------------------------------------------------------------------------
(***************************************************************************)
(* Properties of the handlers.  A row is the set of the predicates it      *)
(* satisfies; a WHERE fragment is evaluated as MySQL does, AND binding     *)
(* tighter than OR.                                                        *)
(***************************************************************************)

Keywords == {"WHERE", "AND", "OR", "(", ")"}

Predicates(q) == Range(q) \ Keywords

\* expr := term (OR term)*, term := factor (AND factor)*,
\* factor := predicate | ( expr ).  Each returns the value and the position
\* after what it read.
RECURSIVE Expr(_, _, _), OrTail(_, _, _), Term(_, _, _), AndTail(_, _, _), Factor(_, _, _)

Factor(q, i, row) ==
    IF q[i] = "("
    THEN LET e == Expr(q, i + 1, row) IN [v |-> e.v, i |-> e.i + 1]
    ELSE [v |-> q[i] \in row, i |-> i + 1]

AndTail(q, acc, row) ==
    IF acc.i <= Len(q) /\ q[acc.i] = "AND"
    THEN LET g == Factor(q, acc.i + 1, row)
         IN  AndTail(q, [v |-> acc.v /\ g.v, i |-> g.i], row)
    ELSE acc

Term(q, i, row) == AndTail(q, Factor(q, i, row), row)

OrTail(q, acc, row) ==
    IF acc.i <= Len(q) /\ q[acc.i] = "OR"
    THEN LET g == Term(q, acc.i + 1, row)
         IN  OrTail(q, [v |-> acc.v \/ g.v, i |-> g.i], row)
    ELSE acc

Expr(q, i, row) == OrTail(q, Term(q, i, row), row)

\* The row is selected (or affected) by a statement with this fragment.
Selects(where, row) == where = <<>> \/ Expr(Tail(where), 1, row).v

\* q has sub as a run of consecutive tokens.
Contains(q, sub) ==
    \E i \in 0..(Len(q) - Len(sub)) : SubSeq(q, i + 1, i + Len(sub)) = sub

\* The composed policy predicate of the handler call in stmts.
PolicyOfCall == getPolicyWhereClause(stmts.table, stmts.operation)

\* C3: for a (table, operation) with at least one enabled policy in the
\* index, every statement the handler emits contains the composed policy
\* predicate.  (exists is left out: it skips the policy on purpose.)
C3_PolicyInEveryStatement ==
    (~Ready /\ stmts.handler # "exists" /\ PolicyOfCall # <<>>) =>
        \A k \in DOMAIN stmts.sql : Contains(stmts.sql[k].where, PolicyOfCall)

----------------------------------------------------------------------------
(***************************************************************************)
(* Part 4: startup.  The catalog (metaDb) is loaded by Xsql.init           *)
(* (dbCacheInitAsync) under Xapi.init, or by SchemaRepository              *)
(* (loadDatabaseSchema, reloadSchema) in the refactored code.  The         *)
(* catalog is abstracted to the names of its tables and routines.  The     *)
(* entry point that calls init and listens (index.js) is not part of the   *)
(* sources; it is modelled from the specification: startup is fatal when   *)
(* the catalog load fails.                                                 *)
(***************************************************************************)

Loaders == {"Xsql", "SchemaRepository"}

\* constructor: metaDb.tables = {}, metaDb.routines = {}
EmptyMetaDb == [tables |-> {}, routines |-> {}]

\* iterateToCacheTables/Pks/Columns/Fks over the rows of the schema query
CacheTables(m, rows) == [m EXCEPT !.tables = @ \cup rows]

\* iterateToCacheProcedures over the rows of the procedures query
CacheProcedures(m, rows) == [m EXCEPT !.routines = @ \cup rows]

\* getSchemaRoutes and the fixed routes of setupRoutes
SchemaRoutes(m) == m.tables \cup FixedRoutes

\* The caller of init: it listens when init reports no error and gives up
\* otherwise.
Startup(b, err) ==
    IF b.listening THEN b
    ELSE [b EXCEPT !.listening = ~err, !.exited = err]

\* The callback Xapi.init hands to Xsql.init: middleware and routes are
\* registered whatever err is, then the caller's callback runs.
XapiInitCallback(b, err) ==
    Startup([b EXCEPT !.routes = SchemaRoutes(b.metaDb),
                      !.pc = IF err THEN "failed" ELSE "ready",
                      !.loaded = ~err], err)

BootUnchanged == UNCHANGED <<execVars, rlsVars, stmts, http, flt, db, cl, plannerVars>>

InitBoot ==
    /\ api = "exec"
    /\ ExecIdle
    /\ ServingWithoutPolicies
    /\ http = NoRequest
    /\ flt = <<>>
    /\ db = EmptyTable
    /\ cl = NoClients
    /\ PlannerIdle
    /\ \E l \in Loaders, t \in SUBSET Tables, r \in SUBSET Routines :
        boot = [loader |-> l, dbTables |-> t, dbRoutines |-> r, pc |-> "new",
                metaDb |-> EmptyMetaDb, routes |-> {}, listening |-> FALSE,
                exited |-> FALSE, routineQuery |-> "none", loaded |-> FALSE,
                served |-> {}]

\* Xapi.init -> Xsql.init -> dbCacheInitAsync: the schema query is sent.
init ==
    /\ boot.loader = "Xsql"
    /\ boot.pc = "new"
    /\ boot' = [boot EXCEPT !.pc = "awaitSchema"]
    /\ BootUnchanged

\* dbCacheInitAsync, callback of the schema query with an error:
\* cbk(err) -> Xsql.init returns cbk(err) -> the callback of Xapi.init.
SchemaQueryErr ==
    /\ boot.loader = "Xsql"
    /\ boot.pc = "awaitSchema"
    /\ boot' = XapiInitCallback(boot, TRUE)
    /\ BootUnchanged

\* dbCacheInitAsync, callback of the schema query with rows (possibly
\* none): the tables are cached and the procedures query is sent.
SchemaQueryOk ==
    /\ boot.loader = "Xsql"
    /\ boot.pc = "awaitSchema"
    /\ boot' = [boot EXCEPT !.metaDb = CacheTables(@, boot.dbTables),
                            !.pc = "awaitProcedures"]
    /\ BootUnchanged

\* callback of the procedures query with an error: logged, FLUSH TABLES
ProceduresQueryErr ==
    /\ boot.loader = "Xsql"
    /\ boot.pc = "awaitProcedures"
    /\ boot' = [boot EXCEPT !.routineQuery = "failed", !.pc = "awaitFlush"]
    /\ BootUnchanged

\* callback of the procedures query with rows: cached, FLUSH TABLES
ProceduresQueryOk ==
    /\ boot.loader = "Xsql"
    /\ boot.pc = "awaitProcedures"
    /\ boot' = [boot EXCEPT !.metaDb = CacheProcedures(@, boot.dbRoutines),
                            !.routineQuery = "ok", !.pc = "awaitFlush"]
    /\ BootUnchanged

\* callback of FLUSH TABLES (its error is ignored): cbk(null, null), and
\* Xsql.init awaits ensureRlsPoliciesTable.
FlushDone ==
    /\ boot.loader = "Xsql"
    /\ boot.pc = "awaitFlush"
    /\ boot' = [boot EXCEPT !.pc = "ensureRls"]
    /\ BootUnchanged

\* ensureRlsPoliciesTable is over (it catches its errors); Xsql.init awaits
\* loadRlsPolicies.
EnsureRlsDone ==
    /\ boot.loader = "Xsql"
    /\ boot.pc = "ensureRls"
    /\ boot' = [boot EXCEPT !.pc = "loadRls"]
    /\ BootUnchanged

\* loadRlsPolicies is over (it catches its errors): cbk(err, results) with
\* err null -> the callback of Xapi.init.
InitDone ==
    /\ boot.loader = "Xsql"
    /\ boot.pc = "loadRls"
    /\ boot' = XapiInitCallback(boot, FALSE)
    /\ BootUnchanged

\* SchemaRepository.loadDatabaseSchema: _querySchema is awaited.
loadDatabaseSchema ==
    /\ boot.loader = "SchemaRepository"
    /\ boot.pc = "new"
    /\ boot' = [boot EXCEPT !.pc = "awaitSchema"]
    /\ BootUnchanged

\* What the catch block of loadDatabaseSchema leaves: the error is thrown
\* on to the caller.
Rethrown(b) == Startup([b EXCEPT !.pc = "failed"], TRUE)

\* _querySchema rejects: catch, throw error.
QuerySchemaRejected ==
    /\ boot.loader = "SchemaRepository"
    /\ boot.pc = "awaitSchema"
    /\ boot' = Rethrown(boot)
    /\ BootUnchanged

\* _querySchema resolves: _initializeTables, _loadTableColumns,
\* _loadPrimaryKeys, _loadForeignKeys; _queryProcedures is awaited.
QuerySchemaResolved ==
    /\ boot.loader = "SchemaRepository"
    /\ boot.pc = "awaitSchema"
    /\ boot' = [boot EXCEPT !.metaDb = CacheTables(@, boot.dbTables),
                            !.pc = "awaitProcedures"]
    /\ BootUnchanged

\* _queryProcedures rejects inside the try block: catch, throw error.
QueryProceduresRejected ==
    /\ boot.loader = "SchemaRepository"
    /\ boot.pc = "awaitProcedures"
    /\ boot' = Rethrown([boot EXCEPT !.routineQuery = "failed"])
    /\ BootUnchanged

\* _queryProcedures resolves: _loadProcedures; _flushTables is awaited.
QueryProceduresResolved ==
    /\ boot.loader = "SchemaRepository"
    /\ boot.pc = "awaitProcedures"
    /\ boot' = [boot EXCEPT !.metaDb = CacheProcedures(@, boot.dbRoutines),
                            !.routineQuery = "ok", !.pc = "awaitFlush"]
    /\ BootUnchanged

\* _flushTables is over (it catches its error): return this.metaDb.  The
\* caller registers the routes and listens.
FlushTablesDone ==
    /\ boot.loader = "SchemaRepository"
    /\ boot.pc = "awaitFlush"
    /\ boot' = Startup([boot EXCEPT !.pc = "ready", !.loaded = TRUE,
                                    !.routes = @ \cup SchemaRoutes(boot.metaDb)],
                       FALSE)
    /\ BootUnchanged

\* SchemaRepository.reloadSchema: this.metaDb is reset, then
\* loadDatabaseSchema runs up to its first await.
reloadSchema ==
    /\ boot.loader = "SchemaRepository"
    /\ boot.pc = "ready"
    /\ boot' = [boot EXCEPT !.metaDb = EmptyMetaDb, !.routineQuery = "none",
                            !.pc = "awaitSchema"]
    /\ BootUnchanged

\* A request reaches a registered route and its handler reads the catalog.
Serve(route) ==
    /\ boot.listening
    /\ route \in boot.routes
    /\ boot' = [boot EXCEPT !.served = @ \cup
                   {[route |-> route, tables |-> boot.metaDb.tables,
                     loaded |-> boot.pc = "ready"]}]
    /\ BootUnchanged

NextBoot ==
    \/ init
    \/ SchemaQueryErr
    \/ SchemaQueryOk
    \/ ProceduresQueryErr
    \/ ProceduresQueryOk
    \/ FlushDone
    \/ EnsureRlsDone
    \/ InitDone
    \/ loadDatabaseSchema
    \/ QuerySchemaRejected
    \/ QuerySchemaResolved
    \/ QueryProceduresRejected
    \/ QueryProceduresResolved
    \/ FlushTablesDone
    \/ reloadSchema
    \/ \E route \in Tables \cup FixedRoutes : Serve(route)

SpecBoot == InitBoot /\ [][NextBoot]_vars_all

----------------------------------------------------------------------------
(***************************************************************************)
(* Properties of startup.                                                  *)
(***************************************************************************)

\* The first catalog load is over, one way or the other.
FirstLoadOver == boot.loaded \/ boot.pc = "failed"

\* C11: no route is registered and nothing is served before the catalog
\* load is over; a failed catalog load is fatal; every request that is
\* served reads a catalog that is loaded and not empty.
C11_ServedFromLoadedCatalog ==
    /\ (boot.routes # {} \/ boot.served # {}) => FirstLoadOver
    /\ (boot.pc = "failed" /\ ~boot.loaded) => (boot.exited /\ ~boot.listening)
    /\ \A s \in boot.served : s.loaded /\ s.tables # {}

\* C12: once a catalog load has succeeded, no step changes the catalog.
C12_CatalogFrozen ==
    [][boot.loaded => boot'.metaDb = boot.metaDb]_vars_all

\* C13: when the routine query has failed after the table query succeeded,
\* the load does not fail, the routines are empty and the tables are the
\* tables of the database.
C13_RoutineFailureNotFatal ==
    boot.routineQuery = "failed" =>
        /\ boot.pc # "failed"
        /\ ~boot.exited
        /\ boot.metaDb = [tables |-> boot.dbTables, routines |-> {}]

----------------------------------------------------------------------------
(***************************************************************************)
(* Part 5: one request through the middleware chain.  Two stacks: Xapi     *)
(* (jwtMiddleware, its handlers, errorMiddleware of lib/xapi.js) and the   *)
(* refactored one (createJwtMiddleware, asyncMiddleware, CrudService,      *)
(* adapters/middleware/errorMiddleware.js).                                *)
(***************************************************************************)

Stacks == {"Xapi", "CrudService"}

\* The Authorization header: absent or not a Bearer one, a Bearer token
\* that jwt.verify rejects, a Bearer token it accepts.
Auths == {"none", "invalid", "valid"}

Handlers == {"list", "read", "exists", "update", "patch", "delete", "create"}

\* The handlers that take the id of a row, in the CrudService too.
ById == {"read", "exists", "update", "delete"}

\* req.params.id: components and '___' separators, in the order written;
\* <<>> when the route has no id.
Ids == {<<>>, <<"v">>, <<"v", "___", "v">>, <<"v", "___">>}

\* What the request asks for and what the database will answer:
\* Prefer: return=representation, Prefer: count=exact, an empty body, the
\* pre-capture query finds rows, the inserted row can be fetched again.
Flags == {"representation", "count", "emptyBody", "found", "fetchable"}

\* metaDb.tables[t].primaryKeys.length: docs has the key id, notes a
\* composite key of two columns.
PrimaryKeys(t) == IF t = "docs" THEN <<"id">> ELSE <<"doc_id", "seq">>

\* String.prototype.split('___') on the id: the runs between separators,
\* empty where two separators (or an end) meet.
RECURSIVE split(_, _)
split(s, cur) ==
    IF s = <<>> THEN <<cur>>
    ELSE IF Head(s) = "___" THEN <<cur>> \o split(Tail(s), "")
         ELSE split(Tail(s), Head(s))

\* Xsql.getPrimaryKeyWhereClause: null (here <<>>) when the table is not
\* in the catalog or the number of values is not the number of keys.
getPrimaryKeyWhereClause(t, pksValues) ==
    IF t \notin Tables THEN <<>>
    ELSE IF Len(pksValues) # Len(PrimaryKeys(t)) THEN <<>>
         ELSE <<"pk">>

\* What a handler does when every statement succeeds: the statements it
\* executes in order, the status it answers with, and whether it throws
\* before the first statement.
Does(sql, status) == [sql |-> sql, status |-> status, thrown |-> FALSE]

\* Xapi.read, exists, update and delete with an id
XapiById(r, sql) ==
    IF getPrimaryKeyWhereClause(r.table, split(r.id, "")) = <<>>
    THEN Does(<<>>, 400)
    ELSE Does(sql, 200)

\* The statements of Xapi.patch with Prefer: return=representation.
PatchRepresentation(found) ==
    <<"SELECT", "UPDATE">> \o (IF found THEN <<"SELECT">> ELSE <<>>)

XapiPlan(r) ==
    LET rep == "representation" \in r.flags
    IN  CASE r.handler = "list" ->
                Does((IF "count" \in r.flags THEN <<"SELECT">> ELSE <<>>)
                        \o <<"SELECT">>, 200)
          [] r.handler \in {"read", "exists"} -> XapiById(r, <<"SELECT">>)
          [] r.handler = "update" -> XapiById(r, <<"UPDATE">>)
          [] r.handler = "delete" ->
                LET sql == (IF rep THEN <<"SELECT">> ELSE <<>>) \o <<"DELETE">>
                IN  IF r.id # <<>> THEN XapiById(r, sql) ELSE Does(sql, 200)
          [] r.handler = "patch" ->
                IF "emptyBody" \in r.flags THEN Does(<<>>, 204)
                ELSE IF rep THEN Does(PatchRepresentation("found" \in r.flags), 200)
                     ELSE Does(<<"UPDATE">>, 200)
          [] r.handler = "create" ->
                IF "emptyBody" \in r.flags THEN Does(<<>>, 200)
                ELSE IF rep /\ "fetchable" \in r.flags
                     THEN Does(<<"INSERT", "SELECT">>, 201)
                     ELSE Does(<<"INSERT">>, 200)

\* CrudService.read, exists, update, delete: throw new Error(
\* COMPOSITE_KEY_MISSING) when getPrimaryKeyWhereClause returns null.
CrudServicePlan(r) ==
    IF r.id # <<>> /\ getPrimaryKeyWhereClause(r.table, split(r.id, "")) = <<>>
    THEN [sql |-> <<>>, status |-> 0, thrown |-> TRUE]
    ELSE Does(IF r.handler = "delete" /\ "representation" \in r.flags
              THEN <<"SELECT", "DELETE">>
              ELSE <<IF r.handler \in {"read", "exists"} THEN "SELECT"
                     ELSE IF r.handler = "update" THEN "UPDATE" ELSE "DELETE">>,
              200)

\* errorMiddleware: an error with a code (a driver error) is answered 400,
\* any other error 500.  Both stacks agree on these two cases.
errorMiddleware(hasCode) == IF hasCode THEN 400 ELSE 500

HttpUnchanged == UNCHANGED <<execVars, rlsVars, stmts, boot, flt, db, cl, plannerVars>>

\* A request: its Authorization header, its route and what it asks for.
Requests ==
    [auth : Auths, handler : Handlers, table : Tables, id : Ids,
     flags : SUBSET Flags]

\* The requests the routes of a stack can carry: an id where the route has
\* one, and only the flags the handler looks at.
Routed(k, r) ==
    /\ r.handler \in ById \ {"delete"} => r.id # <<>>
    /\ r.handler \in {"list", "patch", "create"} => r.id = <<>>
    /\ k = "CrudService" => r.handler \in ById /\ r.id # <<>>
    /\ r.flags \subseteq
         CASE r.handler = "list" -> {"count"}
           [] r.handler = "delete" -> {"representation"}
           [] r.handler = "patch" -> {"representation", "emptyBody", "found"}
           [] r.handler = "create" -> {"representation", "emptyBody", "fetchable"}
           [] OTHER -> {}
    /\ "found" \in r.flags => "representation" \in r.flags
    /\ "fetchable" \in r.flags => "representation" \in r.flags

InitHttp ==
    /\ api = "exec"
    /\ ExecIdle
    /\ ServingWithoutPolicies
    /\ boot = Booted
    /\ flt = <<>>
    /\ db = EmptyTable
    /\ cl = NoClients
    /\ PlannerIdle
    /\ \E k \in Stacks, secret \in BOOLEAN, required \in BOOLEAN :
        /\ k = "CrudService" => secret
        /\ http = [NoRequest EXCEPT !.stack = k,
                      !.config = [jwtSecret |-> secret, jwtRequired |-> required]]

\* res.status(st).json(...): the response is sent, the handler returns.
Respond(h, st) == [h EXCEPT !.responses = Append(@, st), !.pc = "done"]

\* this.mysql.exec(...) is called and awaited.
Execute(h, sql) ==
    [h EXCEPT !.statements = @ + 1, !.plan = Tail(sql), !.pc = "awaitSql"]

\* next(): urlMiddleware, then the handler of the route up to its first
\* await or its response.  An error thrown by the handler reaches
\* errorMiddleware through asyncMiddleware.
Handle(h) ==
    LET plan == IF h.stack = "Xapi" THEN XapiPlan(h.req) ELSE CrudServicePlan(h.req)
        g == [h EXCEPT !.handlerRan = TRUE, !.status = plan.status]
    IN  IF plan.thrown THEN Respond(g, errorMiddleware(FALSE))
        ELSE IF plan.sql = <<>> THEN Respond(g, plan.status)
             ELSE Execute(g, plan.sql)

\* A variant in which the handler goes on after its error was answered.
RejectedAndGoOn(h, hasCode) ==
    [h EXCEPT !.responses = Append(@, errorMiddleware(hasCode))]

\* The promise of exec rejects: asyncMiddleware catches, next(err),
\* errorMiddleware answers; the handler does not resume.
Rejected(h, hasCode) == Respond(h, errorMiddleware(hasCode))

\* jwtMiddleware, up to jwt.verify or to next().  Xapi.init installs it
\* only when a secret is configured (createJwtMiddleware cannot be built
\* without one); without it the request goes straight to its handler.
Arrive(r) ==
    /\ http.pc = "idle"
    /\ Routed(http.stack, r)
    /\ LET h == [http EXCEPT !.req = r]
       IN  http' =
             IF ~h.config.jwtSecret THEN Handle(h)
             ELSE IF r.auth # "none" THEN [h EXCEPT !.pc = "verify"]
                  ELSE IF h.config.jwtRequired THEN Respond(h, 401)
                       ELSE Handle(h)
    /\ HttpUnchanged

\* callback of jwt.verify with an error: 401
VerifyErr ==
    /\ http.pc = "verify"
    /\ http.req.auth = "invalid"
    /\ http' = Respond(http, 401)
    /\ HttpUnchanged

\* callback of jwt.verify with the decoded token: req.user = decoded; next()
VerifyOk ==
    /\ http.pc = "verify"
    /\ http.req.auth = "valid"
    /\ http' = Handle(http)
    /\ HttpUnchanged

\* The awaited statement succeeds: the handler goes on to its next
\* statement, or answers.
SqlOk ==
    /\ http.pc = "awaitSql"
    /\ http' = IF http.plan = <<>> THEN Respond(http, http.status)
               ELSE Execute(http, http.plan)
    /\ HttpUnchanged

\* The awaited statement fails.
SqlErr ==
    /\ http.pc = "awaitSql"
    /\ \E hasCode \in BOOLEAN : http' = Rejected(http, hasCode)
    /\ HttpUnchanged

\* The exchange is over; the next request can come.
Close ==
    /\ http.pc = "done"
    /\ http' = [NoRequest EXCEPT !.stack = http.stack, !.config = http.config]
    /\ HttpUnchanged

NextHttp ==
    \/ \E r \in Requests : Arrive(r)
    \/ VerifyErr
    \/ VerifyOk
    \/ SqlOk
    \/ SqlErr
    \/ Close

SpecHttp == InitHttp /\ [][NextHttp]_vars_all

----------------------------------------------------------------------------
(***************************************************************************)
(* Properties of the middleware chain.                                     *)
(***************************************************************************)

\* The request carries no bearer token that verifies.
Unauthenticated == http.pc # "idle" /\ http.req.auth \in {"none", "invalid"}

\* C14: when a token is required, a request without a valid bearer token
\* runs no handler and no statement, and is answered 401.
C14_Unauthorized ==
    (http.config.jwtRequired /\ Unauthenticated) =>
        /\ ~http.handlerRan
        /\ http.statements = 0
        /\ http.pc = "done" => http.responses = <<401>>

\* The id of the request has not as many components as the primary key of
\* its table has columns.
KeyMismatch ==
    /\ http.req.handler \in ById
    /\ http.req.id # <<>>
    /\ Len(split(http.req.id, "")) # Len(PrimaryKeys(http.req.table))

\* C15: read, exists, update and single-row delete with a wrong number of id
\* components execute no statement and are answered 400.
C15_CompositeKeyError ==
    (http.handlerRan /\ KeyMismatch) =>
        /\ http.statements = 0
        /\ http.pc = "done" => http.responses = <<400>>

\* C16 as stated: at most two statements and exactly one response for
\* every handler invocation.
C16_AtMostTwoStatements ==
    /\ http.statements <= 2
    /\ Len(http.responses) <= 1
    /\ http.pc = "done" => Len(http.responses) = 1

\* C16, amended: at most three statements, three only for patch with
\* Prefer: return=representation, and exactly one response, on success
\* paths and on error paths alike.
C16_AtMostThreeStatements ==
    /\ http.statements <= 3
    /\ http.statements = 3 =>
          (http.req.handler = "patch" /\ "representation" \in http.req.flags)
    /\ Len(http.responses) <= 1
    /\ http.pc = "done" <=> Len(http.responses) = 1

\* A patch with return=representation has run its three statements and
\* answered once; so has a request whose statement failed.
C16_Witness ==
    /\ http.pc = "done"
    /\ http.req.handler = "patch"
    /\ http.statements = 3
    /\ http.responses = <<200>>

----------------------------------------------------------------------------
(***************************************************************************)
(* Part 6: the PostgREST filters of the query string, from the text the    *)
(* client wrote (column=operator.value) to the WHERE fragment of list,     *)
(* patch and bulk delete.                                                  *)
(***************************************************************************)

\* filters of one query string at most
MaxFilters == 2

\* A filter as written: its column and the parts of its value between the
\* dots.  "c" and "d" are columns; a row satisfies the filter on a column
\* when it holds the name of the column.
RawFilters ==
    [column : {"c", "d"}, value : {<<"eq", "1">>, <<"unknown", "1">>, <<"1">>}]

\* req.query: an object, so a column appears once.
Queries ==
    {q \in UNION {[1..n -> RawFilters] : n \in 0..MaxFilters} :
        \A i, j \in DOMAIN q : i # j => q[i].column # q[j].column}

\* A variant that reads an unknown operator as equality.
getComparisonOperatorOrEq(operator) ==
    IF operator = "unknown" THEN "=" ELSE
    CASE operator = "eq" -> "=" [] operator = "neq" -> "!=" [] OTHER -> "null"

\* getComparisonOperator: the SQL operator, or null
getComparisonOperator(operator) ==
    CASE operator = "eq" -> "="
      [] operator = "neq" -> "!="
      [] OTHER -> "null"

\* parseCondition(key, value): null (here <<>>) when the value has no dot
\* or its operator is not known, else the condition on the column.
parseCondition(key, value) ==
    IF Len(value) < 2 THEN <<>>
    ELSE IF getComparisonOperator(value[1]) = "null" THEN <<>>
         ELSE <<key>>

\* The loop of postgrestHelp.getWhereClause over the query parameters:
\* the conditions that parse, in order.
RECURSIVE ParsedConditions(_)
ParsedConditions(q) ==
    IF q = <<>> THEN <<>>
    ELSE parseCondition(Head(q).column, Head(q).value) \o ParsedConditions(Tail(q))

\* The WHERE fragment of list, patch and bulk delete for a query string.
FilteredWhere(t, o, q) ==
    injectPolicyIntoWhere(getWhereClause(<<>>, ParsedConditions(q), "WHERE"),
                          getPolicyWhereClause(t, o))

FilterUnchanged == UNCHANGED <<execVars, rlsVars, boot, http, db, cl, plannerVars>>

\* GET /api/:table?column=operator.value
listFiltered(t, q) ==
    /\ Ready
    /\ flt' = q
    /\ stmts' = Emitted("list", t, "SELECT",
                        CountAndMain(FALSE, FilteredWhere(t, "SELECT", q)))
    /\ FilterUnchanged

\* PATCH /api/:table?column=operator.value
patchFiltered(t, q) ==
    /\ Ready
    /\ flt' = q
    /\ stmts' = Emitted("patch", t, "UPDATE",
                        <<Statement("UPDATE", FilteredWhere(t, "UPDATE", q))>>)
    /\ FilterUnchanged

\* DELETE /api/:table?column=operator.value
deleteFiltered(t, q) ==
    /\ Ready
    /\ flt' = q
    /\ stmts' = Emitted("delete", t, "DELETE",
                        <<Statement("DELETE", FilteredWhere(t, "DELETE", q))>>)
    /\ FilterUnchanged

\* The response is sent.
respondFiltered ==
    /\ ~Ready
    /\ flt' = <<>>
    /\ stmts' = NoCall
    /\ FilterUnchanged

InitFilter == InitApi

NextFilter ==
    \/ \E t \in Tables, q \in Queries :
        \/ listFiltered(t, q)
        \/ patchFiltered(t, q)
        \/ deleteFiltered(t, q)
    \/ respondFiltered

SpecFilter == InitFilter /\ [][NextFilter]_vars_all

----------------------------------------------------------------------------
(***************************************************************************)
(* Properties of the filters.  A row is the set of the predicates it       *)
(* satisfies: policy expressions and the columns whose filter it passes.   *)
(***************************************************************************)

\* The filters of the call whose operator is not known.
Dropped == {i \in DOMAIN flt : Len(flt[i].value) >= 2 /\ flt[i].value[1] = "unknown"}

\* The call without them.
RECURSIVE WithoutDropped(_)
WithoutDropped(q) ==
    IF q = <<>> THEN <<>>
    ELSE (IF Len(Head(q).value) >= 2 /\ Head(q).value[1] = "unknown"
          THEN <<>> ELSE <<Head(q)>>) \o WithoutDropped(Tail(q))

\* The rows a statement with this fragment can meet.
RowsOf(where) == SUBSET (Predicates(where) \cup {"c", "d"})

\* C17 as stated: the statement of a call with a filter of unknown operator
\* reaches no row that the filter, had it been applied, would have kept
\* out.
C17_DroppedFilterNeverWidens ==
    \A k \in DOMAIN stmts.sql, i \in Dropped :
        \A row \in RowsOf(stmts.sql[k].where) :
            Selects(stmts.sql[k].where, row) => flt[i].column \in row

\* C17, amended: a filter of unknown operator leaves no trace in the
\* statement, which is the statement of the same call without that filter
\* and reaches exactly the rows that pass the policy and the other filters.
C17_DroppedFilterIgnored ==
    (~Ready /\ Dropped # {}) =>
        \A k \in DOMAIN stmts.sql :
            LET where == stmts.sql[k].where
            IN  /\ where = FilteredWhere(stmts.table, stmts.operation,
                                         WithoutDropped(flt))
                /\ \A row \in RowsOf(where) :
                     Selects(where, row) <=>
                        /\ PolicyOfCall # <<>> => Expr(PolicyOfCall, 1, row).v
                        /\ \A j \in DOMAIN flt :
                             (j \notin Dropped /\ Len(flt[j].value) >= 2)
                                => flt[j].column \in row

\* A bulk delete under a policy with a known filter and a filter of unknown
\* operator.
C17_Witness ==
    /\ stmts.handler = "delete"
    /\ PolicyOfCall # <<>>
    /\ Dropped # {}
    /\ \E j \in DOMAIN flt : flt[j].value = <<"eq", "1">>

----------------------------------------------------------------------------
(***************************************************************************)
(* Part 7: one table and the handlers that write it (create, patch, bulk   *)
(* delete of lib/xapi.js), called by several clients at once.  The table   *)
(* has the AUTO_INCREMENT primary key id and one column v.  A statement    *)
(* is one step of the database; what a handler does between two of its     *)
(* statements is local to it.  patch and delete carry the filter v=eq.a,   *)
(* patch sets v to "b"; both ask for return=representation.                *)
(***************************************************************************)

\* Resolution header: none, merge-duplicates (isUpsert), ignore-duplicates
Resolutions == {"none", "merge-duplicates", "ignore-duplicates"}

\* An object of a request body: id 0 stands for no id.
Objects == [id : 0..MaxId, v : {"a"}]

\* A body: one object, or an array of two objects with the same keys.
Bodies(bulk) ==
    IF ~bulk THEN {<<o>> : o \in Objects}
    ELSE {b \in [1..2 -> Objects] :
              /\ b[1].id = 0 <=> b[2].id = 0
              /\ b[1].id # 0 => b[1].id # b[2].id}

TableRow(i, v) == [id |-> i, v |-> v]

\* SELECT ... WHERE id IN ids: the rows there are.
RowsAt(rows, ids) == {TableRow(i, rows[i]) : i \in {j \in ids \cap RowIds : rows[j] # "none"}}

\* WHERE v = 'a'
Matching(rows) == {i \in RowIds : rows[i] = "a"}

Max(x, y) == IF x >= y THEN x ELSE y

\* The same with an ON DUPLICATE KEY UPDATE that does not store VALUES(col).
InsertRowNotStoringValues(st, o, resolution) ==
    IF st.failed THEN st
    ELSE IF o.id = 0
    THEN [st EXCEPT !.rows[st.autoInc] = o.v, !.autoInc = @ + 1,
                    !.affectedRows = @ + 1, !.inserted = @ \cup {st.autoInc},
                    !.firstGenerated = IF @ = 0 THEN st.autoInc ELSE @]
    ELSE IF st.rows[o.id] = "none"
    THEN [st EXCEPT !.rows[o.id] = o.v, !.autoInc = Max(@, o.id + 1),
                    !.affectedRows = @ + 1, !.inserted = @ \cup {o.id},
                    !.lastExplicit = o.id]
    ELSE CASE resolution = "ignore-duplicates" -> st
           [] resolution = "merge-duplicates" ->
                [st EXCEPT !.rows[o.id] = "b", !.affectedRows = @ + 2,
                           !.merged = @ \cup {o.id}, !.lastExplicit = o.id]
           [] OTHER -> [st EXCEPT !.failed = TRUE]

\* One row of an INSERT as MySQL executes it: a generated id, an explicit
\* id that is free, or a duplicate key, which INSERT IGNORE skips, ON
\* DUPLICATE KEY UPDATE turns into an update (2 affected rows when the row
\* changes, 0 when it does not) and a plain INSERT fails on.
InsertRow(st, o, resolution) ==
    IF st.failed THEN st
    ELSE IF o.id = 0
    THEN [st EXCEPT !.rows[st.autoInc] = o.v, !.autoInc = @ + 1,
                    !.affectedRows = @ + 1, !.inserted = @ \cup {st.autoInc},
                    !.firstGenerated = IF @ = 0 THEN st.autoInc ELSE @]
    ELSE IF st.rows[o.id] = "none"
    THEN [st EXCEPT !.rows[o.id] = o.v, !.autoInc = Max(@, o.id + 1),
                    !.affectedRows = @ + 1, !.inserted = @ \cup {o.id},
                    !.lastExplicit = o.id]
    ELSE CASE resolution = "ignore-duplicates" -> st
           [] resolution = "merge-duplicates" ->
                [st EXCEPT !.rows[o.id] = o.v,
                           !.affectedRows = IF st.rows[o.id] = o.v THEN @ ELSE @ + 2,
                           !.merged = @ \cup {o.id}, !.lastExplicit = o.id]
           [] OTHER -> [st EXCEPT !.failed = TRUE]

RECURSIVE InsertRows(_, _, _)
InsertRows(st, body, resolution) ==
    IF body = <<>> THEN st
    ELSE InsertRows(InsertRow(st, Head(body), resolution), Tail(body), resolution)

\* INSERT [IGNORE] INTO t ... [ON DUPLICATE KEY UPDATE ...]
Insert(d, body, resolution) ==
    InsertRows([rows |-> d.rows, autoInc |-> d.autoInc, affectedRows |-> 0,
                inserted |-> {}, merged |-> {}, firstGenerated |-> 0,
                lastExplicit |-> 0, failed |-> FALSE], body, resolution)

\* results.insertId: the first generated id of the statement; when it
\* generated none, 0 or the id of the last row it stored, as the server
\* reports it.
InsertIds(st) ==
    IF st.firstGenerated # 0 THEN {st.firstGenerated} ELSE {0, st.lastExplicit}

\* The ids the bulk branch of create fetches: nothing (<<FALSE, {}>>) when
\* insertId is 0, else BETWEEN insertId AND insertId + affectedRows - 1.
BulkFetch(insertId, affectedRows) ==
    IF insertId = 0 THEN [fetch |-> FALSE, ids |-> {}]
    ELSE [fetch |-> TRUE, ids |-> insertId..(insertId + affectedRows - 1)]

\* The single branch of create: the insertId, else the id of the body;
\* nothing when the body has no id either.
SingleFetch(insertId, o) ==
    IF insertId # 0 THEN [fetch |-> TRUE, ids |-> {insertId}]
    ELSE IF o.id # 0 THEN [fetch |-> TRUE, ids |-> {o.id}]
         ELSE [fetch |-> FALSE, ids |-> {}]

DataUnchanged == UNCHANGED <<execVars, rlsVars, stmts, boot, http, flt, plannerVars>>

InitData ==
    /\ api = "exec"
    /\ ExecIdle
    /\ ServingWithoutPolicies
    /\ boot = Booted
    /\ http = NoRequest
    /\ flt = <<>>
    /\ db = EmptyTable
    /\ cl = NoClients
    /\ PlannerIdle

\* The handler call of a client goes to its next position.
Goes(c, call) == cl' = [cl EXCEPT ![c] = call]

\* res.status(status).json(...)
Answers(call, status, kind, answer) ==
    [ClientIdle EXCEPT !.h = call.h, !.rep = call.rep, !.written = call.written,
                       !.pc = "done", !.status = status, !.kind = kind,
                       !.answer = answer]

\* POST /api/t with return=representation: Xapi.create up to its INSERT.
Post(c, bulk, body, resolution) ==
    /\ cl[c].pc = "idle"
    /\ Goes(c, [ClientIdle EXCEPT !.h = "create", !.pc = "insert", !.bulk = bulk,
                   !.body = body, !.resolution = resolution,
                   !.rep = TRUE])
    /\ UNCHANGED db
    /\ DataUnchanged

\* PATCH /api/t?v=eq.a with return=representation: Xapi.patch up to the
\* SELECT of the keys of the rows to update.
Patch(c) ==
    /\ cl[c].pc = "idle"
    /\ Goes(c, [ClientIdle EXCEPT !.h = "patch", !.pc = "select", !.rep = TRUE])
    /\ UNCHANGED db
    /\ DataUnchanged

\* DELETE /api/t?v=eq.a with return=representation: Xapi.delete up to the
\* SELECT of the rows to delete.
Delete(c) ==
    /\ cl[c].pc = "idle"
    /\ Goes(c, [ClientIdle EXCEPT !.h = "delete", !.pc = "select", !.rep = TRUE])
    /\ UNCHANGED db
    /\ DataUnchanged

\* The pre-capture SELECT runs: rowsToUpdate (the keys) or rowsToDelete.
Select(c) ==
    /\ cl[c].pc = "select"
    /\ LET ids == Matching(db.rows)
       IN  Goes(c, [cl[c] EXCEPT !.pc = "write", !.captured = ids,
                                 !.answer = RowsAt(db.rows, ids)])
    /\ UNCHANGED db
    /\ DataUnchanged

\* The UPDATE of patch runs; with no captured row the answer is [], else
\* the rows are selected again by key.
PatchUpdate(c) ==
    /\ cl[c].pc = "write"
    /\ cl[c].h = "patch"
    /\ LET ids == Matching(db.rows)
           rows == [i \in RowIds |-> IF i \in ids THEN "b" ELSE db.rows[i]]
           call == [cl[c] EXCEPT !.written = RowsAt(rows, ids)]
       IN  /\ db' = [db EXCEPT !.rows = rows, !.last = NoInsert, !.again = FALSE]
           /\ Goes(c, IF call.captured # {}
                      THEN [call EXCEPT !.pc = "reselect"]
                      ELSE Answers(call, 200, "rows", {}))
    /\ DataUnchanged

\* SELECT * FROM t WHERE id IN (captured keys) runs: the answer of patch.
PatchReselect(c) ==
    /\ cl[c].pc = "reselect"
    /\ Goes(c, Answers(cl[c], 200, "rows", RowsAt(db.rows, cl[c].captured)))
    /\ UNCHANGED db
    /\ DataUnchanged

\* The DELETE runs: the answer is rowsToDelete.
DeleteRows(c) ==
    /\ cl[c].pc = "write"
    /\ cl[c].h = "delete"
    /\ LET ids == Matching(db.rows)
       IN  /\ db' = [db EXCEPT !.rows = [i \in RowIds |->
                                    IF i \in ids THEN "none" ELSE db.rows[i]],
                              !.last = NoInsert, !.again = FALSE]
           /\ Goes(c, Answers([cl[c] EXCEPT !.written = RowsAt(db.rows, ids)],
                              200, "rows", cl[c].answer))
    /\ DataUnchanged

\* The upsert a call makes, for the history of the table: the table keeps
\* the last statement that wrote to it when that was an upsert, and whether
\* it repeated the upsert before it with no other write in between.
Upsert(call) ==
    IF call.resolution = "merge-duplicates"
    THEN [body |-> call.body, resolution |-> call.resolution]
    ELSE NoInsert

SameUpsertAgain(c) ==
    /\ cl[c].pc = "insert"
    /\ cl[c].resolution = "merge-duplicates"
    /\ db.last = Upsert(cl[c])

\* The INSERT of create runs.  A duplicate key under a plain INSERT is a
\* driver error (400).  With return=representation and rows that can be
\* fetched the SELECT follows, else the answer is the driver metadata.
CreateInsert(c) ==
    /\ cl[c].pc = "insert"
    /\ LET st == Insert(db, cl[c].body, cl[c].resolution)
       IN  /\ st.autoInc <= MaxId + 1
           /\ IF st.failed
              THEN /\ Goes(c, Answers(cl[c], 400, "error", {}))
                   /\ UNCHANGED db
              ELSE /\ db' = [rows |-> st.rows, autoInc |-> st.autoInc,
                             last |-> Upsert(cl[c]),
                             again |-> SameUpsertAgain(c)]
                   /\ \E insertId \in InsertIds(st) :
                        LET f == IF cl[c].bulk
                                 THEN BulkFetch(insertId, st.affectedRows)
                                 ELSE SingleFetch(insertId, cl[c].body[1])
                            call == [cl[c] EXCEPT !.written =
                                        RowsAt(st.rows, st.inserted \cup st.merged)]
                        IN  Goes(c, IF cl[c].rep /\ f.fetch
                                    THEN [call EXCEPT !.pc = "fetch", !.captured = f.ids]
                                    ELSE Answers(call, 200, "metadata", {}))
    /\ DataUnchanged

\* The SELECT of create runs: 201 with the rows it finds.
CreateFetch(c) ==
    /\ cl[c].pc = "fetch"
    /\ Goes(c, Answers(cl[c], 201, "rows", RowsAt(db.rows, cl[c].captured)))
    /\ UNCHANGED db
    /\ DataUnchanged

\* The exchange is over.
EndExchange(c) ==
    /\ cl[c].pc = "done"
    /\ Goes(c, ClientIdle)
    /\ UNCHANGED db
    /\ DataUnchanged

NextData ==
    \E c \in Clients :
        \/ \E bulk \in BOOLEAN, resolution \in Resolutions :
             \E body \in Bodies(bulk) : Post(c, bulk, body, resolution)
        \/ Patch(c)
        \/ Delete(c)
        \/ Select(c)
        \/ PatchUpdate(c)
        \/ PatchReselect(c)
        \/ DeleteRows(c)
        \/ CreateInsert(c)
        \/ CreateFetch(c)
        \/ EndExchange(c)

SpecData == InitData /\ [][NextData]_vars_all

\* A patch or delete with return=representation has answered.
Represented(c) == cl[c].pc = "done" /\ cl[c].h \in {"patch", "delete"}

\* C18: the body of a patch or delete with return=representation is exactly
\* the set of rows its UPDATE or DELETE statement affected, whatever other
\* requests do between the pre-capture SELECT and that statement.
C18_BodyIsAffectedRows ==
    \A c \in Clients : Represented(c) => cl[c].answer = cl[c].written

\* A create with return=representation has answered, and not with the
\* error of the driver.
Created(c) == cl[c].pc = "done" /\ cl[c].h = "create" /\ cl[c].rep /\ cl[c].status # 400

\* C19: a create with return=representation answers 201 with exactly the
\* rows its INSERT stored, single or bulk, in every upsert mode and with
\* other inserts going on.
C19_CreatedRowsReturned ==
    \A c \in Clients :
        Created(c) => /\ cl[c].status = 201
                      /\ cl[c].kind = "rows"
                      /\ cl[c].answer = cl[c].written

\* Every object of the body carries its primary key.
WithKeys(body) == \A i \in DOMAIN body : body[i].id # 0

----------------------------------------------------------------------------
(***************************************************************************)
(* Part 8 - list and nestedList of lib/xapi.js: the count statement, the   *)
(* main statement with its LIMIT, the Content-Range header and the         *)
(* singular response.  page.rows are the rows that pass the WHERE clause   *)
(* and the policy of the request; other requests insert and delete such    *)
(* rows at any time, the two statements of a request are two steps.        *)
(***************************************************************************)

ListRoutes == {"list", "nestedList"}

\* What a client writes for each pagination parameter.
Written ==
    [limit |-> {<<>>, <<1>>, <<2>>},
     offset |-> {<<>>, <<0>>, <<1>>},
     _size |-> {<<>>, <<2>>, <<1, 0, 0>>, <<1, 5, 0>>},
     _p |-> {<<>>, <<1>>, <<2>>}]

PageQueries == {q \in [PageParams -> UNION {Written[k] : k \in PageParams}] :
                    \A k \in PageParams : q[k] \in Written[k]}

\* 'limit' in reqParams
In(k, q) == q[k] # <<>>

\* parseInt of a string of decimal digits
RECURSIVE parseInt(_)
parseInt(digits) ==
    IF digits = <<>> THEN 0
    ELSE 10 * parseInt(SubSeq(digits, 1, Len(digits) - 1)) + digits[Len(digits)]

\* getLimitClause taking offset as the number of the first row, from 1.
getLimitClauseFromOne(q) ==
    LET len == IF In("limit", q) THEN parseInt(q["limit"])
               ELSE IF In("_size", q) /\ parseInt(q["_size"]) < 100
               THEN parseInt(q["_size"])
               ELSE 20
        index == IF In("offset", q) THEN parseInt(q["offset"]) + 1
                 ELSE IF In("_p", q) /\ parseInt(q["_p"]) > 0
                 THEN (parseInt(q["_p"]) - 1) * len + 1
                 ELSE 0
    IN  <<index, len>>

\* Xsql.getLimitClause: [_index, _len]
getLimitClause(q) ==
    LET len == IF In("limit", q) THEN parseInt(q["limit"])
               ELSE IF In("_size", q) /\ parseInt(q["_size"]) < 100
               THEN parseInt(q["_size"])
               ELSE 20
        index == IF In("offset", q) THEN parseInt(q["offset"])
                 ELSE IF In("_p", q) /\ parseInt(q["_p"]) > 0
                 THEN (parseInt(q["_p"]) - 1) * len + 1
                 ELSE 0
    IN  <<index, len>>

\* The rows in the order of the ORDER BY clause.
RECURSIVE Ordered(_)
Ordered(ids) ==
    IF ids = {} THEN <<>>
    ELSE LET least == CHOOSE i \in ids : \A j \in ids : i <= j
         IN  <<least>> \o Ordered(ids \ {least})

\* ... limit ?,? with [offset, row count] as MySQL executes it
Limit(ordered, limitClause) ==
    SubSeq(ordered, limitClause[1] + 1,
           IF limitClause[1] + limitClause[2] <= Len(ordered)
           THEN limitClause[1] + limitClause[2] ELSE Len(ordered))

\* totalStr with 0 for a total that was not counted.
totalStrOrZero(totalCount) == IF totalCount # Null THEN ToString(totalCount) ELSE "0"

\* totalStr = totalCount !== null ? totalCount : '*'
totalStr(totalCount) == IF totalCount # Null THEN ToString(totalCount) ELSE "*"

\* Content-Range with end = start + results.length.
ContentRangeOnePast(offset, length, totalCount) ==
    IF length = 0 THEN <<"*", "/", totalStr(totalCount)>>
    ELSE <<ToString(offset), "-", ToString(offset + length), "/",
           totalStr(totalCount)>>

\* res.set('Content-Range', ...) of list and nestedList: the pieces of the
\* template string, in order.
ContentRange(offset, length, totalCount) ==
    IF length = 0 THEN <<"*", "/", totalStr(totalCount)>>
    ELSE <<ToString(offset), "-", ToString(offset + length - 1), "/",
           totalStr(totalCount)>>

PageUnchanged == UNCHANGED <<execVars, rlsVars, stmts, boot, http, flt, db, cl,
                              sel, rel, loc, pool>>

InitPage ==
    /\ api = "exec"
    /\ ExecIdle
    /\ ServingWithoutPolicies
    /\ GatewayIdle

\* GET /api/t or GET /api/p/:id/t arrives: the handler runs up to its first
\* statement, the count when Prefer: count=exact is there.
ListArrive(route, q, countRequested, singular) ==
    /\ page.pc = "idle"
    /\ page' = [NoPage EXCEPT !.rows = page.rows, !.route = route, !.query = q,
                              !.countRequested = countRequested,
                              !.singular = singular,
                              !.pc = IF countRequested THEN "count" ELSE "main"]
    /\ PageUnchanged

\* SELECT count(1) as no_of_rows ... returns.
CountQueryDone ==
    /\ page.pc = "count"
    /\ page' = [page EXCEPT !.totalCount = Cardinality(page.rows), !.pc = "main"]
    /\ PageUnchanged

\* The main statement returns: the header is set and the response is sent.
\* Only list looks at the Accept header.
MainQueryDone ==
    /\ page.pc = "main"
    /\ LET limitClause == getLimitClause(page.query)
           candidate == Ordered(page.rows)
           rows == Limit(candidate, limitClause)
           object == page.route = "list" /\ page.singular
       IN  page' = [page EXCEPT
                !.pc = "done", !.limitClause = limitClause,
                !.candidate = candidate, !.results = rows,
                !.contentRange = ContentRange(limitClause[1], Len(rows),
                                              page.totalCount),
                !.status = IF object /\ Len(rows) # 1 THEN 406 ELSE 200,
                !.body = IF ~object THEN "array"
                         ELSE IF Len(rows) = 1 THEN "object" ELSE "error"]
    /\ PageUnchanged

\* The exchange is over.
ListClose ==
    /\ page.pc = "done"
    /\ page' = [NoPage EXCEPT !.rows = page.rows]
    /\ PageUnchanged

\* Another request inserts a row that matches.
InsertMatching(i) ==
    /\ i \notin page.rows
    /\ page' = [page EXCEPT !.rows = @ \cup {i}]
    /\ PageUnchanged

\* Another request deletes a row that matches.
DeleteMatching(i) ==
    /\ i \in page.rows
    /\ page' = [page EXCEPT !.rows = @ \ {i}]
    /\ PageUnchanged

NextPage ==
    \/ \E route \in ListRoutes, q \in PageQueries, c \in BOOLEAN, o \in BOOLEAN :
         ListArrive(route, q, c, o)
    \/ CountQueryDone
    \/ MainQueryDone
    \/ ListClose
    \/ \E i \in MatchIds : InsertMatching(i)
    \/ \E i \in MatchIds : DeleteMatching(i)

SpecPage == InitPage /\ [][NextPage]_vars_all

\* The list request has been answered.
Listed == page.pc = "done"

\* C21: with Accept: application/vnd.pgrst.object+json a list or relational
\* request answers 200 with one object when the result has exactly one row,
\* and 406 in every other case.
C21_SingularObject ==
    Listed /\ page.singular =>
        IF Len(page.results) = 1
        THEN page.status = 200 /\ page.body = "object"
        ELSE page.status = 406

\* The request carries both limit and offset.
Paged == Listed /\ In("limit", page.query) /\ In("offset", page.query)

\* C22: with limit=L and offset=K the page has at most L rows and its first
\* row is row K+1 of the filtered, ordered result.
C22_PageOfOrderedResult ==
    Paged =>
        LET L == parseInt(page.query["limit"])
            K == parseInt(page.query["offset"])
        IN  /\ Len(page.results) <= L
            /\ page.results # <<>> => page.results[1] = page.candidate[K + 1]

\* A page that starts after the first row and ends before the last.
C22_Witness ==
    /\ Paged
    /\ page.results # <<>>
    /\ parseInt(page.query["offset"]) > 0
    /\ Len(page.candidate) > parseInt(page.query["offset"]) + Len(page.results)

Min(x, y) == IF x <= y THEN x ELSE y

\* C23: the page size is limit, else _size capped at 100, else 20; the
\* offset is offset, else (_p - 1) * size + 1, else 0.
C23_PaginationBounds ==
    Listed =>
        LET q == page.query
            size == IF In("limit", q) THEN parseInt(q["limit"])
                    ELSE IF In("_size", q) THEN Min(parseInt(q["_size"]), 100)
                    ELSE 20
            first == IF In("offset", q) THEN parseInt(q["offset"])
                     ELSE IF In("_p", q) THEN (parseInt(q["_p"]) - 1) * size + 1
                     ELSE 0
        IN  page.limitClause = <<first, size>>

\* The header the claim describes for the page that was returned.
RangeOfPage ==
    LET start == page.limitClause[1]
        n == Len(page.results)
        total == IF page.countRequested THEN ToString(page.totalCount) ELSE "*"
    IN  IF n = 0 THEN <<"*", "/", total>>
        ELSE <<ToString(start), "-", ToString(start + n - 1), "/", total>>

\* C24: Content-Range is <start>-<end>/<total> with start the offset and end
\* = start + rows - 1, */<total> for an empty page; <total> is the number
\* of rows the count statement found when Prefer: count=exact was sent, and
\* * otherwise.
C24_ContentRange ==
    /\ [](Listed => page.contentRange = RangeOfPage)
    /\ [][page.pc = "count" /\ page'.pc # "count"
            => page'.totalCount = Cardinality(page.rows)]_vars_all

\* A counted page that does not start at the first row.
C24_Witness ==
    /\ Listed
    /\ page.countRequested
    /\ page.results # <<>>
    /\ page.limitClause[1] > 0
    /\ page.totalCount > Len(page.results)

\* A list request without Prefer: count=exact has been answered.
ListedWithoutCount == Listed /\ page.route = "list" /\ ~page.countRequested

\* C25 as the specification states it: without Prefer: count=exact the
\* response of list carries no Content-Range header.
C25_NoContentRange == ListedWithoutCount => page.contentRange = <<>>

\* C25 (amended): without Prefer: count=exact the response of list carries
\* a Content-Range header whose total is *.
C25_ContentRangeWithoutTotal ==
    ListedWithoutCount =>
        /\ page.contentRange # <<>>
        /\ page.contentRange[Len(page.contentRange)] = "*"
        /\ page.contentRange[Len(page.contentRange) - 1] = "/"

\* A page of rows was returned and nothing was counted.
C25_Witness == ListedWithoutCount /\ page.results # <<>> /\ page.status = 200

\* C30: with Prefer: count=exact and a page that is not empty, the header
\* has start <= end < total, whatever other requests insert or delete
\* between the count statement and the main statement.
C30_RangeWithinTotal ==
    Listed /\ page.countRequested /\ page.results # <<>> =>
        LET start == page.limitClause[1]
            end == start + Len(page.results) - 1
        IN  start <= end /\ end < page.totalCount

----------------------------------------------------------------------------
(***************************************************************************)
(* Part 9 - the select planner.  parseSelect of                            *)
(* lib/util/selectParser.helper.js, one step per character of its loop,    *)
(* and getNestedQuery of lib/xsql.js over the foreign keys of the catalog. *)
(* Strings are sequences of characters.                                    *)
(***************************************************************************)

Chars == {"(", ")", ",", ":", "a"}

SelectStrings == UNION {[1..n -> Chars] : n \in 0..MaxLen}

\* item.indexOf(c), from 1; 0 when c is not in item
RECURSIVE indexOf(_, _)
indexOf(item, c) ==
    IF item = <<>> THEN 0
    ELSE IF Head(item) = c THEN 1
    ELSE LET rest == indexOf(Tail(item), c) IN IF rest = 0 THEN 0 ELSE rest + 1

\* parseItem: a relation name(columns) or hint:name(columns), else a column
parseItem(item) ==
    LET openParenIndex == indexOf(item, "(")
    IN  IF openParenIndex # 0 /\ item[Len(item)] = ")"
        THEN LET nameOrHint == SubSeq(item, 1, openParenIndex - 1)
                 columns == SubSeq(item, openParenIndex + 1, Len(item) - 1)
                 colonIndex == indexOf(nameOrHint, ":")
             IN  IF colonIndex # 0
                 THEN [type |-> "relation",
                       name |-> SubSeq(nameOrHint, colonIndex + 1, Len(nameOrHint)),
                       hint |-> SubSeq(nameOrHint, 1, colonIndex - 1),
                       columns |-> columns]
                 ELSE [type |-> "relation", name |-> nameOrHint, hint |-> <<>>,
                       columns |-> columns]
        ELSE [type |-> "column", name |-> item, hint |-> <<>>, columns |-> <<>>]

\* if (buffer.trim()) results.push(parseItem(buffer.trim()))
Pushed(items, buffer) ==
    IF buffer # <<>> THEN Append(items, parseItem(buffer)) ELSE items

SelectUnchanged == UNCHANGED <<execVars, rlsVars, stmts, boot, http, flt, db, cl,
                                page, rel, loc, pool>>

InitSelect ==
    /\ api = "exec"
    /\ ExecIdle
    /\ ServingWithoutPolicies
    /\ GatewayIdle

\* parseSelect(selectStr) is called: an empty string returns at once.
parseSelect(selectStr) ==
    /\ sel.pc = "idle"
    /\ sel' = [NoParse EXCEPT !.selectStr = selectStr,
                              !.pc = IF selectStr = <<>> THEN "done" ELSE "loop"]
    /\ SelectUnchanged

\* One turn of the loop over the characters.
Scan ==
    /\ sel.pc = "loop"
    /\ sel.i <= Len(sel.selectStr)
    /\ LET char == sel.selectStr[sel.i]
       IN  sel' = [sel EXCEPT
                !.i = @ + 1,
                !.depth = CASE char = "(" -> @ + 1
                            [] char = ")" -> @ - 1
                            [] OTHER -> @,
                !.buffer = IF char = "," /\ sel.depth = 0 THEN <<>>
                           ELSE Append(@, char),
                !.results = IF char = "," /\ sel.depth = 0
                            THEN Pushed(@, sel.buffer) ELSE @]
    /\ SelectUnchanged

\* The loop is over: what is left in the buffer is the last item.
ScanEnd ==
    /\ sel.pc = "loop"
    /\ sel.i > Len(sel.selectStr)
    /\ sel' = [sel EXCEPT !.pc = "done", !.results = Pushed(@, sel.buffer)]
    /\ SelectUnchanged

\* The caller has the items.
ParseReturn ==
    /\ sel.pc = "done"
    /\ sel' = NoParse
    /\ SelectUnchanged

NextSelect ==
    \/ \E selectStr \in SelectStrings : parseSelect(selectStr)
    \/ Scan
    \/ ScanEnd
    \/ ParseReturn

SpecSelect == InitSelect /\ [][NextSelect]_vars_all

\* S has matched parentheses: no prefix closes more than it opened, and
\* all that were opened are closed.
RECURSIVE MatchedFrom(_, _)
MatchedFrom(S, open) ==
    IF S = <<>> THEN open = 0
    ELSE CASE Head(S) = "(" -> MatchedFrom(Tail(S), open + 1)
           [] Head(S) = ")" -> open > 0 /\ MatchedFrom(Tail(S), open - 1)
           [] OTHER -> MatchedFrom(Tail(S), open)

Matched(S) == MatchedFrom(S, 0)

\* C26: at the end of the parse the depth is 0 if and only if the select
\* string has matched parentheses.
C26_DepthZeroIffMatched ==
    sel.pc = "done" => (sel.depth = 0 <=> Matched(sel.selectStr))

(***************************************************************************)
(* getNestedQuery.  The catalog holds some of four foreign keys between    *)
(* the two tables, in the order the schema query returned them.            *)
(***************************************************************************)

AllForeignKeys ==
    << [table |-> "notes", column_name |-> "doc_id", referenced_table_name |-> "docs"],
       [table |-> "notes", column_name |-> "alt_doc_id", referenced_table_name |-> "docs"],
       [table |-> "docs", column_name |-> "note_id", referenced_table_name |-> "notes"],
       [table |-> "docs", column_name |-> "parent_id", referenced_table_name |-> "docs"] >>

\* The relation names a client can write: the tables, and one that is not
\* in the catalog.
RelationNames == Tables \cup {"tags"}
Hints == {"none", "doc_id", "alt_doc_id", "note_id", "parent_id", "id"}

\* metaDb.tables[t].foreignKeys, as indices of AllForeignKeys
foreignKeysOf(catalog, t) == {i \in catalog : AllForeignKeys[i].table = t}

\* The first of the foreign keys fks that points to table `to`, on column
\* `column` when one is given; 0 when there is none.
FirstForeignKey(fks, to, column) ==
    LET found == {i \in fks : /\ AllForeignKeys[i].referenced_table_name = to
                              /\ column # "none" => AllForeignKeys[i].column_name = column}
    IN  IF found = {} THEN 0 ELSE CHOOSE i \in found : \A j \in found : i <= j

\* dataHelp.findObjectInArrayByKey('referenced_table_name', to, fks)
findObjectInArrayByKey(to, fks) == FirstForeignKey(fks, to, "none")

\* The subquery for the foreign keys that were found.
Embedding(fkToParent, fkToChild) ==
    IF fkToParent # 0
    THEN [embedding |-> "1:N", on |-> AllForeignKeys[fkToParent].column_name]
    ELSE IF fkToChild # 0
    THEN [embedding |-> "N:1", on |-> AllForeignKeys[fkToChild].column_name]
    ELSE [embedding |-> "NULL", on |-> "none"]

\* getNestedQuery that does not look at the hint.
getNestedQueryWithoutHint(catalog, parentTable, relationName, hint) ==
    Embedding(findObjectInArrayByKey(parentTable, foreignKeysOf(catalog, relationName)),
              findObjectInArrayByKey(relationName, foreignKeysOf(catalog, parentTable)))

\* Xsql.getNestedQuery
getNestedQuery(catalog, parentTable, relationName, hint) ==
    LET fks == foreignKeysOf(catalog, relationName)
        parentFks == foreignKeysOf(catalog, parentTable)
    IN  IF hint # "none"
        THEN LET fkToChild == FirstForeignKey(parentFks, relationName, hint)
                 fkToParent == IF fkToChild = 0
                               THEN FirstForeignKey(fks, parentTable, hint) ELSE 0
             IN  Embedding(fkToParent, fkToChild)
        ELSE Embedding(findObjectInArrayByKey(parentTable, fks),
                       findObjectInArrayByKey(relationName, parentFks))

RelationUnchanged == UNCHANGED <<execVars, rlsVars, stmts, boot, http, flt, db, cl,
                                  page, sel, loc, pool>>

InitRelation ==
    /\ api = "exec"
    /\ ExecIdle
    /\ ServingWithoutPolicies
    /\ boot = Booted /\ http = NoRequest /\ flt = <<>> /\ db = EmptyTable
    /\ cl = NoClients
    /\ page = NoPage /\ sel = NoParse /\ loc = NoLocals /\ pool = NoPool
    /\ \E catalog \in SUBSET DOMAIN AllForeignKeys :
         rel = [NoRelation EXCEPT !.foreignKeys = catalog]

\* resolveSelectColumns meets the relation node [hint:]relationName(...) in
\* the select of parentTable: getNestedQuery(...) + ' AS ' + item.name
Embed(parentTable, relationName, hint) ==
    /\ rel.pc = "idle"
    /\ LET q == getNestedQuery(rel.foreignKeys, parentTable, relationName, hint)
       IN  rel' = [rel EXCEPT !.parentTable = parentTable,
                              !.relationName = relationName, !.hint = hint,
                              !.pc = "done", !.embedding = q.embedding,
                              !.on = q.on, !.alias = relationName]
    /\ RelationUnchanged

\* The column list is returned.
EmbedReturn ==
    /\ rel.pc = "done"
    /\ rel' = [NoRelation EXCEPT !.foreignKeys = rel.foreignKeys]
    /\ RelationUnchanged

NextRelation ==
    \/ \E parentTable \in Tables, relationName \in RelationNames, hint \in Hints :
         Embed(parentTable, relationName, hint)
    \/ EmbedReturn

SpecRelation == InitRelation /\ [][NextRelation]_vars_all

\* A foreign key of table `from` points to table `to`, on column `column`
\* when one is given.
Owns(from, to, column) ==
    \E i \in rel.foreignKeys :
        /\ AllForeignKeys[i].table = from
        /\ AllForeignKeys[i].referenced_table_name = to
        /\ column # "none" => AllForeignKeys[i].column_name = column

Aliased == rel.alias = rel.relationName /\ rel.alias # rel.hint

\* C27 as the specification states it: 1:N when the target table owns a
\* foreign key to the current table, else N:1 when the current table owns
\* one to the target, else NULL; the alias is the target and not the hint.
C27_EmbeddingByOwner ==
    rel.pc = "done" =>
        /\ Aliased
        /\ rel.embedding =
             IF Owns(rel.relationName, rel.parentTable, "none") THEN "1:N"
             ELSE IF Owns(rel.parentTable, rel.relationName, "none") THEN "N:1"
             ELSE "NULL"

\* C27 (amended): with a hint only a foreign key on the hinted column
\* counts, and one owned by the current table (N:1) is looked for before
\* one owned by the target (1:N); without a hint it is as stated.
C27_EmbeddingByOwnerAndHint ==
    rel.pc = "done" =>
        /\ Aliased
        /\ rel.embedding =
             IF rel.hint = "none"
             THEN IF Owns(rel.relationName, rel.parentTable, "none") THEN "1:N"
                  ELSE IF Owns(rel.parentTable, rel.relationName, "none") THEN "N:1"
                  ELSE "NULL"
             ELSE IF Owns(rel.parentTable, rel.relationName, rel.hint) THEN "N:1"
                  ELSE IF Owns(rel.relationName, rel.parentTable, rel.hint) THEN "1:N"
                  ELSE "NULL"

\* Foreign keys in both directions, and the hint names the one of the
\* current table.
C27_Witness ==
    /\ rel.pc = "done"
    /\ rel.hint # "none"
    /\ rel.parentTable # rel.relationName
    /\ Owns(rel.relationName, rel.parentTable, "none")
    /\ Owns(rel.parentTable, rel.relationName, rel.hint)
    /\ rel.embedding = "N:1"

----------------------------------------------------------------------------
(***************************************************************************)
(* Part 10 - urlMiddleware and the table names in app.locals.  express     *)
(* runs urlMiddleware and the route handler of a request in one turn, up   *)
(* to the first await of the handler; every handler reads app.locals       *)
(* before that await, so a request is one step.  app.locals belongs to the *)
(* application: what a request leaves there the next one finds.            *)
(***************************************************************************)

\* The handlers that read one table name, by the shape of their route.
OnTable == {"list", "create", "patch"}
OnRow == {"read", "update", "delete"}
OnVerb == {"count", "describe"}

\* The URL of a route as the pieces between which split('/') cuts.
Url(handler, t, c) ==
    CASE handler \in OnTable -> <<"/", "api", "/", t>>
      [] handler \in OnRow -> <<"/", "api", "/", t, "/", "1">>
      [] handler \in OnVerb -> <<"/", "api", "/", t, "/", handler>>
      [] handler = "exists" -> <<"/", "api", "/", t, "/", "1", "/", "exists">>
      [] handler = "nestedList" -> <<"/", "api", "/", t, "/", "1", "/", c>>

\* justUrl.split('/')
RECURSIVE splitPath(_, _)
splitPath(url, cur) ==
    IF url = <<>> THEN <<cur>>
    ELSE IF Head(url) = "/" THEN <<cur>> \o splitPath(Tail(url), "")
    ELSE splitPath(Tail(url), cur \o Head(url))

\* urlMiddleware: what it leaves in app.locals
urlMiddleware(locals, url) ==
    LET pathSplit == splitPath(url, "")
    IN  IF Len(pathSplit) >= 2 /\ pathSplit[2] = "api"
        THEN IF Len(pathSplit) >= 5
             THEN [locals EXCEPT !.parentTable = pathSplit[3],
                                 !.childTable = pathSplit[5]]
             ELSE [locals EXCEPT !.tableName = pathSplit[3]]
        ELSE locals

\* The table names a handler takes from app.locals.
TablesRead(handler, locals) ==
    IF handler = "nestedList" THEN <<locals.parentTable, locals.childTable>>
    ELSE <<locals.tableName>>

LocalsUnchanged == UNCHANGED <<execVars, rlsVars, stmts, boot, http, flt, db, cl,
                                page, sel, rel, pool>>

InitLocals ==
    /\ api = "exec"
    /\ ExecIdle
    /\ ServingWithoutPolicies
    /\ GatewayIdle

\* A request for a route of table t (and child table c) goes through
\* urlMiddleware and into its handler.
Request(handler, t, c) ==
    /\ handler = "nestedList" \/ c = t
    /\ LET url == Url(handler, t, c)
           locals == urlMiddleware(loc, url)
       IN  loc' = [locals EXCEPT !.handler = handler, !.url = url,
                                 !.used = TablesRead(handler, locals)]
    /\ LocalsUnchanged

NextLocals ==
    \E handler \in OnTable \cup OnRow \cup OnVerb \cup {"exists", "nestedList"},
       t \in Tables, c \in Tables : Request(handler, t, c)

SpecLocals == InitLocals /\ [][NextLocals]_vars_all

\* The tables the URL of the last request names.
TablesOfUrl ==
    IF loc.handler = "nestedList" THEN <<loc.url[4], loc.url[8]>> ELSE <<loc.url[4]>>

\* C28: the table, or the parent and child tables, a handler works on are
\* the ones in the URL of its own request, for every route.
C28_TableOfOwnUrl == loc.handler # "none" => loc.used = TablesOfUrl

----------------------------------------------------------------------------
(***************************************************************************)
(* Part 11 - the pool under the handlers.  A handler of lib/xapi.js awaits *)
(* Xsql.exec once per statement; exec takes a connection from the pool     *)
(* (pool.query or pool.getConnection), runs the statement on it and        *)
(* releases it in the callback of the statement.  The pool hands a         *)
(* released connection to the oldest waiting getConnection.                *)
(***************************************************************************)

PoolUnchanged == UNCHANGED <<execVars, rlsVars, stmts, boot, http, flt, db, cl,
                              page, sel, rel, loc>>

InitPool ==
    /\ api = "exec"
    /\ ExecIdle
    /\ ServingWithoutPolicies
    /\ GatewayIdle

\* pool.getConnection for handler r: a free connection at once, else the
\* callback waits in the queue.
GetConnection(p, r) ==
    IF p.free > 0
    THEN [p EXCEPT !.free = @ - 1, !.h[r].pc = "running", !.h[r].held = @ + 1]
    ELSE [p EXCEPT !.queue = Append(@, r), !.h[r].pc = "waiting",
                   !.h[r].waited = TRUE]

\* The pool gets a connection back: the oldest waiter has it, else it is free.
Returned(p) ==
    IF p.queue # <<>>
    THEN [p EXCEPT !.queue = Tail(@), !.h[Head(p.queue)].pc = "running",
                   !.h[Head(p.queue)].held = @ + 1]
    ELSE [p EXCEPT !.free = @ + 1]

\* exec that gives the connection back only after the last statement of
\* the handler.
ReleaseAtTheEnd(p, r) ==
    IF p.h[r].left > 1 THEN p
    ELSE Returned([p EXCEPT !.h[r].held = @ - 1])

\* connection.release() in the callback of the statement of handler r
ReleaseConnection(p, r) == Returned([p EXCEPT !.h[r].held = @ - 1])

\* A request arrives whose handler will issue n statements.
Start(r, n) ==
    /\ pool.h[r].pc = "idle"
    /\ pool' = [pool EXCEPT !.h[r] = [HandlerIdle EXCEPT !.pc = "next", !.left = n]]
    /\ PoolUnchanged

\* The handler calls Xsql.exec for its next statement.
Exec(r) ==
    /\ pool.h[r].pc = "next"
    /\ pool' = GetConnection(pool, r)
    /\ PoolUnchanged

\* The statement of handler r completes: the connection is released and the
\* awaiting handler goes on, to its next statement or to its response.
StatementDone(r) ==
    /\ pool.h[r].pc = "running"
    /\ LET p == ReleaseConnection(pool, r)
       IN  pool' = [p EXCEPT !.h[r].left = @ - 1,
                             !.h[r].pc = IF p.h[r].left > 1 THEN "next" ELSE "done"]
    /\ PoolUnchanged

\* The response is sent.
Completed(r) ==
    /\ pool.h[r].pc = "done"
    /\ pool' = [pool EXCEPT !.h[r] = HandlerIdle]
    /\ PoolUnchanged

NextPool ==
    \E r \in Running :
        \/ \E n \in 1..MaxStatements : Start(r, n)
        \/ Exec(r)
        \/ StatementDone(r)
        \/ Completed(r)

SpecPool == InitPool /\ [][NextPool]_vars_all

\* Every statement that was issued completes, and a handler that can go on
\* does.
SpecPoolLive ==
    /\ SpecPool
    /\ \A r \in Running : WF_vars_all(StatementDone(r)) /\ WF_vars_all(Exec(r))

InFlight(r) == pool.h[r].pc \in {"next", "waiting", "running"}

\* C29: a handler holds at most one connection and holds none while it
\* waits for one; every handler that waits gets a connection and every
\* request completes, with any number of requests on a bounded pool.
C29_NoPoolDeadlock ==
    /\ [](\A r \in Running :
            /\ pool.h[r].held <= 1
            /\ pool.h[r].pc = "waiting" => pool.h[r].held = 0)
    /\ \A r \in Running :
         /\ pool.h[r].pc = "waiting" ~> pool.h[r].pc = "running"
         /\ InFlight(r) ~> pool.h[r].pc = "done"

\* A handler completed after it had to wait for a connection while another
\* one waits behind a running statement.
C29_Witness ==
    \E r, w, u \in Running :
        /\ pool.h[r].pc = "done" /\ pool.h[r].waited
        /\ pool.h[w].pc = "waiting"
        /\ pool.h[u].pc = "running"

====
